---- MODULE Spec2Model ----
(***************************************************************************)
(* GeoPulse: the generated administrative collections, the bounded retail  *)
(* scan (utils/osmPlaces: executeOverpassQuery, fetchRetailStoresBounded)  *)
(* and the scan handler of the application (App.tsx: handleScanStores).    *)
(*                                                                         *)
(* Coordinates are integers in units of 1/400 degree, so that a source     *)
(* coordinate given in hundredths of a degree is a multiple of 4 and the   *)
(* two midpoint halvings of a scan are exact.  A point is <<lng, lat>>,    *)
(* as in the source.                                                       *)
(***************************************************************************)
EXTENDS Integers, Sequences, FiniteSets, TLC

\* ------------------------------------------------------------------ bounds
\* Number of taluks generated (the source table has 8); the scan regions are
\* derived from them.
NumTaluks == 2
\* Number of villages of the loaded village collection.
NumVillages == 3
\* Number of files the user imports.
MaxImports == 1
\* Number of elements transformed one after the other.
MaxTransforms == 2

\* ------------------------------------------------------- program constants
MaxSplitDepth == 2
Max429Attempt == 5
MaxGatewayAttempt == 2
MaxAbortAttempt == 2
GeocodeIdChars == 6
\* Milliseconds: the wait before the retry after a 502/504, the base of the
\* wait after a 429, and the width of its jitter.
GatewayDelay == 2000
BackoffBase == 3000
JitterRange == 1000
VillageGeocodeStart == 1001
\* Villages wanted per taluk, and sampling attempts allowed per taluk.
targetCount == 35
MaxAttempts == 400

\* ---------------------------------------------------------------- helpers
Min(a, b) == IF a <= b THEN a ELSE b

\* String.prototype.includes: p occurs in s as a contiguous substring.
Includes(s, p) ==
    \E k \in 1..(Len(s) - Len(p) + 1) : SubSeq(s, k, k + Len(p) - 1) = p

\* String.prototype.substring(0, n)
Substring0(s, n) == SubSeq(s, 1, Min(n, Len(s)))

\* String(i).padStart(2, '0')
PadStart2(i) == IF i < 10 THEN "0" \o ToString(i) ELSE ToString(i)

SetMin(S) == CHOOSE x \in S : \A y \in S : x <= y
SetMax(S) == CHOOSE x \in S : \A y \in S : y <= x

Range(s) == {s[k] : k \in 1..Len(s)}

RECURSIVE Flatten(_)
Flatten(ss) == IF ss = <<>> THEN <<>> ELSE Head(ss) \o Flatten(Tail(ss))

\* The number that is not a number.
NaN == 0 - 1

\* JavaScript values held in attribute bags: strings, numbers, arrays of
\* strings and undefined.  One record shape, so that values of different
\* types can be compared (===).
Str(s) == [t |-> "string", s |-> s, n |-> 0, a |-> <<>>]
Num(n) == [t |-> "number", s |-> "", n |-> n, a |-> <<>>]
Arr(a) == [t |-> "object", s |-> "", n |-> 0, a |-> a]
Undefined == [t |-> "undefined", s |-> "", n |-> 0, a |-> <<>>]
\* A number given in hundredths.
Dec(h) == IF h % 100 = 0 THEN Num(h \div 100) ELSE [t |-> "number", s |-> "/100", n |-> h, a |-> <<>>]

\* ----------------------------------------------------------------- strings
\* Array.prototype.join
RECURSIVE Join(_, _)
Join(strs, sep) ==
    IF strs = <<>> THEN ""
    ELSE IF Len(strs) = 1 THEN strs[1]
    ELSE Join(SubSeq(strs, 1, Len(strs) \div 2), sep) \o sep
           \o Join(SubSeq(strs, Len(strs) \div 2 + 1, Len(strs)), sep)

\* String.prototype.split with a separator of one character
Split(str, sep) ==
    LET cuts == {k \in 1..Len(str) : SubSeq(str, k, k) = sep}
        RECURSIVE From(_)
        From(k) ==
            LET later == {c \in cuts : c >= k}
            IN IF later = {} THEN <<SubSeq(str, k, Len(str))>>
               ELSE <<SubSeq(str, k, SetMin(later) - 1)>> \o From(SetMin(later) + 1)
    IN From(1)

\* str.replace(/"/g, '""')
DoubleQuotes(str) ==
    Join([k \in 1..Len(str) |->
            IF SubSeq(str, k, k) = "\"" THEN "\"\"" ELSE SubSeq(str, k, k)], "")

\* String.prototype.trim
Trim(str) ==
    LET White(k) == SubSeq(str, k, k) \in {" ", "\t", "\r", "\n"}
        black == {k \in 1..Len(str) : ~White(k)}
    IN IF black = {} THEN "" ELSE SubSeq(str, SetMin(black), SetMax(black))

\* String.prototype.endsWith
EndsWith(str, suffix) ==
    Len(str) >= Len(suffix) /\ SubSeq(str, Len(str) - Len(suffix) + 1, Len(str)) = suffix

\* String(n) for a number value: an integer, or hundredths written with
\* one or two decimals.
NumberToString(v) ==
    IF v.s = "/100"
    THEN ToString(v.n \div 100) \o "." \o ToString((v.n % 100) \div 10)
           \o (IF v.n % 10 = 0 THEN "" ELSE ToString(v.n % 10))
    ELSE ToString(v.n)

\* !isNaN(Number(val)) && val !== '' for a trimmed string of decimal digits
\* with at most one point (signs, exponents and other radixes are left out).
IsNumeric(val) ==
    LET points == {k \in 1..Len(val) : SubSeq(val, k, k) = "."}
        digits == {k \in 1..Len(val) : SubSeq(val, k, k) \in
                      {"0", "1", "2", "3", "4", "5", "6", "7", "8", "9"}}
    IN /\ digits # {}
       /\ Cardinality(points) <= 1
       /\ digits \cup points = 1..Len(val)

\* JSON.stringify of an array of strings
StringifyArray(a) ==
    "[" \o Join([k \in 1..Len(a) |-> "\"" \o a[k] \o "\""], ",") \o "]"

\* A geometry: a Point with its position, or a Polygon with its one ring.
Geometry(type, coordinates) == [type |-> type, coordinates |-> coordinates]

\* JSON.stringify(f.geometry); a coordinate is a 4000th of a degree and is
\* written with the decimals it needs, three at most.
StringifyGeometry(g) ==
    LET StringifyCoord(c) ==
            LET th == (c \div 4) % 1000
                frac == IF th = 0 THEN ""
                        ELSE IF th % 100 = 0 THEN "." \o ToString(th \div 100)
                        ELSE IF th % 10 = 0
                             THEN "." \o (IF th < 100 THEN "0" ELSE "") \o ToString(th \div 10)
                        ELSE "." \o (IF th < 10 THEN "00" ELSE IF th < 100 THEN "0" ELSE "")
                                 \o ToString(th)
            IN ToString(c \div 4000) \o frac
        P(pt) == "[" \o StringifyCoord(pt[1]) \o "," \o StringifyCoord(pt[2]) \o "]"
        coords == IF g.type = "Point" THEN P(g.coordinates)
                  ELSE "[[" \o Join([k \in 1..Len(g.coordinates) |-> P(g.coordinates[k])], ",")
                            \o "]]"
    IN "{\"type\":\"" \o g.type \o "\",\"coordinates\":" \o coords \o "}"

\* The geocodes of a list of features, in order.
Geocodes(fs) == [k \in 1..Len(fs) |-> fs[k].properties.geocode]
Ids(fs) == [k \in 1..Len(fs) |-> fs[k].id]
Distinct(s) == \A a, b \in 1..Len(s) : a # b => s[a] # s[b]

\* ------------------------------------------------------ taluk boundaries
\* A source coordinate pair [lng, lat] given in hundredths of a degree.
Pt(lngH, latH) == <<40 * lngH, 40 * latH>>

J_Nelamangala_Doddaballapur_BlrNorth == Pt(7742, 1318)
J_Doddaballapur_Devanahalli_BlrNorth == Pt(7761, 1321)
J_Devanahalli_Hoskote_BlrEast == Pt(7774, 1308)

COORDS_NELAMANGALA ==
    << J_Nelamangala_Doddaballapur_BlrNorth, Pt(7745, 1310), Pt(7748, 1302),
       Pt(7742, 1296), Pt(7735, 1298), Pt(7725, 1305), Pt(7722, 1315),
       Pt(7728, 1325), Pt(7735, 1322), J_Nelamangala_Doddaballapur_BlrNorth >>

COORDS_DODDABALLAPUR ==
    << J_Nelamangala_Doddaballapur_BlrNorth, Pt(7738, 1325), Pt(7735, 1335),
       Pt(7740, 1345), Pt(7745, 1355), Pt(7755, 1352), Pt(7765, 1348),
       Pt(7762, 1335), J_Doddaballapur_Devanahalli_BlrNorth, Pt(7752, 1320),
       J_Nelamangala_Doddaballapur_BlrNorth >>

COORDS_DEVANAHALLI ==
    << J_Doddaballapur_Devanahalli_BlrNorth, Pt(7762, 1335), Pt(7768, 1342),
       Pt(7778, 1340), Pt(7785, 1330), Pt(7782, 1320), Pt(7778, 1315),
       J_Devanahalli_Hoskote_BlrEast, Pt(7768, 1315),
       J_Doddaballapur_Devanahalli_BlrNorth >>

COORDS_HOSKOTE ==
    << J_Devanahalli_Hoskote_BlrEast, Pt(7778, 1315), Pt(7788, 1312),
       Pt(7792, 1300), Pt(7788, 1290), Pt(7780, 1292), Pt(7775, 1295),
       J_Devanahalli_Hoskote_BlrEast >>

\* The outlines of the districts (unions of taluk polygons in the program)
\* are cut down to a triangle each.
DistrictOutline(k) ==
    IF k = 1 THEN << Pt(7722, 1296), Pt(7792, 1290), Pt(7745, 1355), Pt(7722, 1296) >>
    ELSE << Pt(7735, 1270), Pt(7792, 1290), Pt(7742, 1318), Pt(7735, 1270) >>

\* The first entries of talukDataRaw, in source order.  nameRank is the
\* position of the name in localeCompare order among these names.
talukDataRawAll ==
    << [name |-> "Doddaballapur", nameRank |-> 2, district |-> "Bengaluru Rural",
        districtRank |-> 1, coords |-> COORDS_DODDABALLAPUR, population |-> 297587,
        crops |-> <<"Ragi", "Maize", "Silk">>],
       [name |-> "Devanahalli", nameRank |-> 1, district |-> "Bengaluru Rural",
        districtRank |-> 1, coords |-> COORDS_DEVANAHALLI, population |-> 209622,
        crops |-> <<"Grapes", "Vegetables", "Flowers">>],
       [name |-> "Nelamangala", nameRank |-> 4, district |-> "Bengaluru Rural",
        districtRank |-> 1, coords |-> COORDS_NELAMANGALA, population |-> 232145,
        crops |-> <<"Ragi", "Arecanut", "Coconut">>],
       [name |-> "Hoskote", nameRank |-> 3, district |-> "Bengaluru Rural",
        districtRank |-> 1, coords |-> COORDS_HOSKOTE, population |-> 270818,
        crops |-> <<"Vegetables", "Flowers", "Tomato">>] >>

talukDataRaw == SubSeq(talukDataRawAll, 1, Min(NumTaluks, Len(talukDataRawAll)))

\* A feature carries, next to its properties, their names in the order
\* Object.keys gives them (keys), and its geometry.
\* taluksData.features: id taluk-<i> and geocode KAT<i+1 padded to 2>, i from 0.
taluksData ==
    [k \in 1..Len(talukDataRaw) |->
        [id |-> "taluk-" \o ToString(k - 1),
         properties |-> [id |-> Str("taluk-" \o ToString(k - 1)),
                         geocode |-> Str("KAT" \o PadStart2(k)),
                         name |-> Str(talukDataRaw[k].name),
                         type |-> Str("Taluk"),
                         population |-> Num(talukDataRaw[k].population),
                         mainCrops |-> Arr(talukDataRaw[k].crops)],
         keys |-> <<"id", "geocode", "name", "type", "population", "mainCrops">>,
         geometry |-> Geometry("Polygon", talukDataRaw[k].coords),
         ring |-> talukDataRaw[k].coords,
         nameRank |-> talukDataRaw[k].nameRank,
         districtRank |-> talukDataRaw[k].districtRank]]

districtsData ==
    << [id |-> "dist-rural",
        properties |-> [id |-> Str("dist-rural"), geocode |-> Str("KAD01"),
                        name |-> Str("Bengaluru Rural"), type |-> Str("District")],
        keys |-> <<"id", "geocode", "name", "type">>,
        geometry |-> Geometry("Polygon", DistrictOutline(1))],
       [id |-> "dist-urban",
        properties |-> [id |-> Str("dist-urban"), geocode |-> Str("KAD02"),
                        name |-> Str("Bengaluru Urban"), type |-> Str("District")],
        keys |-> <<"id", "geocode", "name", "type">>,
        geometry |-> Geometry("Polygon", DistrictOutline(2))] >>

\* ---------------------------------------------------------------- villages
\* const isValidRing = (ring) => ...; a coordinate that is not a number is NaN.
isValidRing(ring) ==
    /\ Len(ring) >= 3
    /\ \A k \in 1..Len(ring) : Len(ring[k]) >= 2 /\ ring[k][1] # NaN /\ ring[k][2] # NaN

\* const isPointInPolygon = (point, vs) => ...: ray casting.  The test
\* x < (xj - xi) * (y - yi) / (yj - yi) + xi is made without the division.
isPointInPolygon(point, vs) ==
    LET x == point[1]
        y == point[2]
        Intersect(i) ==
            LET j == IF i = 1 THEN Len(vs) ELSE i - 1
                xi == vs[i][1]
                yi == vs[i][2]
                xj == vs[j][1]
                yj == vs[j][2]
            IN /\ (yi > y) # (yj > y)
               /\ IF yj - yi > 0
                  THEN (x - xi) * (yj - yi) < (xj - xi) * (y - yi)
                  ELSE (x - xi) * (yj - yi) > (xj - xi) * (y - yi)
    IN Cardinality({i \in 1..Len(vs) : Intersect(i)}) % 2 = 1

\* A named place; lat and lng are given in thousandths of a degree.
Village(name, latT, lngT) == [name |-> name, lat |-> 4 * latT, lng |-> 4 * lngT]

\* REAL_VILLAGE_NAMES[talukName], each name with REAL_VILLAGE_LOCATIONS[name].
REAL_VILLAGES(talukName) ==
    IF talukName = "Doddaballapur" THEN
      << Village("Tubagere", 13350, 77450),
         Village("Sasalu", 13260, 77450),
         Village("Madhure", 13220, 77440),
         Village("Doddabelavangala", 13380, 77380),
         Village("Melekote", 13320, 77510),
         Village("Raghunathapura", 13280, 77520),
         Village("Konaghatta", 13310, 77540),
         Village("Heggadihalli", 13380, 77480),
         Village("Aroodi", 13400, 77420),
         Village("Kadur", 13300, 77400),
         Village("Doddaballapur Ind. Area", 13280, 77530) >>
    ELSE IF talukName = "Devanahalli" THEN
      << Village("Avati", 13303, 77726),
         Village("Bidalur", 13218, 77693),
         Village("Kundana", 13208, 77636),
         Village("Vijayapura", 13293, 77801),
         Village("Channarayapatna", 13220, 77750),
         Village("Kannamangala", 13180, 77730),
         Village("Koira", 13220, 77660),
         Village("Sathanur", 13140, 77650),
         Village("Yeliyur", 13190, 77720),
         Village("Venkatagirikote", 13240, 77710),
         Village("Sadahalli", 13190, 77680),
         Village("Devanahalli Town", 13248, 77713) >>
    ELSE IF talukName = "Nelamangala" THEN
      << Village("Sompura", 13240, 77230),
         Village("T. Begur", 13150, 77300),
         Village("Kulumepalya", 13120, 77350),
         Village("Dabaspet", 13240, 77240),
         Village("Thyamagondlu", 13200, 77280),
         Village("Baraguru", 13180, 77250),
         Village("Manne", 13220, 77320),
         Village("Nidavanda", 13260, 77220),
         Village("Mahadevapura", 13120, 77380),
         Village("Nelamangala Town", 13095, 77390),
         Village("Arishinakunte", 13130, 77420) >>
    ELSE IF talukName = "Hoskote" THEN
      << Village("Anugondanahalli", 13010, 77820),
         Village("Jadigenahalli", 13060, 77850),
         Village("Nandagudi", 13150, 77880),
         Village("Sulibele", 13120, 77810),
         Village("Mugabal", 13040, 77860),
         Village("Kalkunte", 13080, 77750),
         Village("Doddagattiganabbe", 13060, 77800),
         Village("Vagata", 13110, 77860),
         Village("Muthasandra", 13020, 77790),
         Village("Hoskote Town", 13070, 77795),
         Village("Thavarekere", 13000, 77820) >>
    ELSE <<>>

\* generateOrganicPolygon(lat, lng, 0.005): a ring of sides + 1 points around
\* the centre; of its points only the centre they surround is kept here.
generateOrganicPolygon(centerLat, centerLng, sides) ==
    [k \in 1..(sides + 1) |-> <<centerLng, centerLat>>]

\* createVillageFeature(name, lat, lng, talukName, districtName, crops) when
\* vId and villageGeocodeCounter hold the given values: the feature, or
\* <<>> for null.  centre is the point the polygon was generated around.
createVillageFeature(name, lat, lng, talukName, districtName, crops, id, counter) ==
    LET poly == generateOrganicPolygon(lat, lng, 6)
        vIDString == "village-" \o ToString(id)
    IN IF isValidRing(poly)
       THEN << [id |-> vIDString,
                properties |-> [id |-> Str(vIDString),
                                geocode |-> Str("KAV" \o ToString(counter)),
                                name |-> Str(name), type |-> Str("Village"),
                                district |-> Str(districtName), taluk |-> Str(talukName),
                                mainCrops |-> Arr(crops)],
                keys |-> <<"id", "geocode", "name", "type", "district", "taluk", "mainCrops">>,
                geometry |-> Geometry("Polygon", poly),
                centre |-> <<lng, lat>>] >>
       ELSE <<>>

\* Curated villages numbered from KAV1001 again in every taluk.
RealVillages_PerTaluk(taluk, id, counter) ==
    LET real == REAL_VILLAGES(taluk.name)
    IN Flatten([k \in 1..Len(real) |->
                  createVillageFeature(real[k].name, real[k].lat, real[k].lng, taluk.name,
                                       taluk.district, taluk.crops, id + k - 1,
                                       VillageGeocodeStart + k - 1)])

\* The features pushed for the curated villages of a taluk, the first of
\* them created with vId = id and villageGeocodeCounter = counter.
RealVillages(taluk, id, counter) ==
    LET real == REAL_VILLAGES(taluk.name)
    IN Flatten([k \in 1..Len(real) |->
                  createVillageFeature(real[k].name, real[k].lat, real[k].lng, taluk.name,
                                       taluk.district, taluk.crops, id + k - 1, counter + k - 1)])

\* villagesData.features as loaded: its first villages.
villagesData ==
    SubSeq(RealVillages(talukDataRaw[1], 0, VillageGeocodeStart), 1, NumVillages)

\* The first entries of REAL_PINCODES (codes only).
REAL_PINCODES == << "560001", "560002", "560003", "560004", "560005", "560009" >>

generatedPincodes(cells) ==
    LET AREA_NAMES == << "M.G. Road", "City Market", "Malleswaram", "Basavanagudi",
                         "Fraser Town", "Gandhinagar" >>
        F(k) == [id |-> "pin-" \o REAL_PINCODES[k],
                 properties |-> [id |-> Str("pin-" \o REAL_PINCODES[k]),
                                 geocode |-> Str("KAP" \o REAL_PINCODES[k]),
                                 name |-> Str(REAL_PINCODES[k] \o " - " \o AREA_NAMES[k]),
                                 type |-> Str("Pincode")],
                 keys |-> <<"id", "geocode", "name", "type">>,
                 geometry |-> Geometry("Polygon", <<Pt(7755 + k, 1295), Pt(7756 + k, 1295),
                                                    Pt(7755 + k, 1296), Pt(7755 + k, 1295)>>)]
        RECURSIVE Build(_)
        Build(k) == IF k > Len(REAL_PINCODES) THEN <<>>
                    ELSE (IF k \in cells THEN <<F(k)>> ELSE <<>>) \o Build(k + 1)
    IN Build(1)

\* ------------------------------------------------------------ scan regions
\* A bounding box is [south, west, north, east].
BBoxOfRing(ring) ==
    LET lats == {ring[k][2] : k \in 1..Len(ring)}
        lngs == {ring[k][1] : k \in 1..Len(ring)}
    IN [south |-> SetMin(lats), north |-> SetMax(lats),
        west |-> SetMin(lngs), east |-> SetMax(lngs)]

\* Array.prototype.sort with the comparator
\* a.group.localeCompare(b.group) || a.name.localeCompare(b.name)
\* (the keys are distinct).
RECURSIVE SortRegions(_)
SortRegions(S) ==
    IF S = {} THEN <<>>
    ELSE LET RegionBefore(a, b) ==
                 \/ a.groupRank < b.groupRank
                 \/ (a.groupRank = b.groupRank /\ a.nameRank < b.nameRank)
             m == CHOOSE a \in S : \A b \in S \ {a} : RegionBefore(a, b)
         IN <<m>> \o SortRegions(S \ {m})

scanRegions ==
    SortRegions({ [id |-> k - 1,
                   name |-> taluksData[k].properties.name.s,
                   groupRank |-> taluksData[k].districtRank,
                   nameRank |-> taluksData[k].nameRank,
                   bbox |-> BBoxOfRing(taluksData[k].ring)]
                  : k \in 1..Len(taluksData) })

RegionIndices == 1..Len(scanRegions)

\* ------------------------------------------------ the spatial endpoint
\* An element of the external data set: an OSM node with its id and position.
\* A key that is absent from tags reads as "" here: both are falsy.
NoTags == [shop |-> "", stars |-> "", rating |-> "", addrRate |-> ""]
El(id, lngH, latH) == [id |-> id, lon |-> 40 * lngH, lat |-> 40 * latH, tags |-> NoTags]

\* The box (south=12.90, west=77.55, north=13.00, east=77.65).
ScenarioBox == [south |-> 40 * 1290, west |-> 40 * 7755, north |-> 40 * 1300, east |-> 40 * 7765]

\* Twelve shops, three in each quadrant of ScenarioBox, none on a dividing
\* line of the box or of its quadrants.
World12 ==
    { El(101, 7756, 1291), El(102, 7756, 1291), El(103, 7756, 1291),
      El(104, 7761, 1291), El(105, 7761, 1291), El(106, 7761, 1291),
      El(107, 7756, 1296), El(108, 7756, 1296), El(109, 7756, 1296),
      El(110, 7761, 1296), El(111, 7761, 1296), El(112, 7761, 1296) }

\* Two shops at one place, which lies on the line dividing the southern from
\* the northern quadrants of the Devanahalli box and inside the Doddaballapur
\* box as well; their ids agree on the first six digits.
WorldEdge == { El(1234567, 7763, 1325), El(1234568, 7763, 1325) }

\* The data sets of the application runs.
Worlds == {WorldEdge}

\* data.elements of the answer to the query for box b: the elements the
\* bounding-box filter (south, west, north, east) of the query lets through,
\* bounds included, by id.
Elements(w, b) ==
    LET InBox(el) ==
            /\ b.south <= el.lat /\ el.lat <= b.north
            /\ b.west <= el.lon /\ el.lon <= b.east
        S == {el \in w : InBox(el)}
    IN [k \in 1..Cardinality(S) |->
          CHOOSE a \in S : Cardinality({c \in S : c.id < a.id}) = k - 1]

\* HTTP statuses the endpoint answers with.
Statuses == {200, 429, 500, 502, 504}

\* Messages of the AbortError a fetch rejects with after controller.abort()
\* (the text depends on the browser).
AbortMessages ==
    { "signal is aborted without reason", "The user aborted a request.",
      "The operation was aborted." }

\* Messages of the other errors the try block can throw: the TypeError of a
\* failed fetch and the SyntaxError of response.json().
OtherMessages ==
    { "Failed to fetch", "NetworkError when attempting to fetch resource.",
      "Unexpected token < in JSON at position 0" }

RateLimitMessage ==
    "Server is too busy (Rate Limit). Please wait a few minutes and try again."

\* ------------------------------------------------------------ getCategory
\* String.prototype.toLowerCase, for strings of ASCII characters.
ToLowerCase(str) ==
    LET UpperCase == "ABCDEFGHIJKLMNOPQRSTUVWXYZ"
        LowerCase == "abcdefghijklmnopqrstuvwxyz"
        Lower(c) ==
            LET at == {k \in 1..Len(UpperCase) : SubSeq(UpperCase, k, k) = c}
            IN IF at = {} THEN c ELSE SubSeq(LowerCase, CHOOSE k \in at : TRUE, CHOOSE k \in at : TRUE)
        RECURSIVE Walk(_)
        Walk(k) == IF k > Len(str) THEN "" ELSE Lower(SubSeq(str, k, k)) \o Walk(k + 1)
    IN Walk(1)

Rule(category, members) == [category |-> category, members |-> members]

\* The if-statements of getCategory(shopType), in their order.
OSM_RULES ==
    << Rule("Groceries", {"supermarket", "convenience", "grocery", "greengrocer", "organic",
                          "frozen_food", "spices"}),
       Rule("Food & Beverages", {"food", "bakery", "butcher", "seafood", "ice_cream", "beverages",
                                 "coffee", "tea", "confectionery", "chocolate"}),
       Rule("Fashion", {"clothes", "fashion", "boutique", "textiles", "fabric", "tailor", "baby"}),
       Rule("Accessories", {"shoes", "jewelry", "bag", "watches", "optician", "leather"}),
       Rule("Electronics", {"electronics", "mobile_phone", "computer", "robot", "hifi",
                            "telecommunication", "video_games"}),
       Rule("Home & Living", {"furniture", "interior_decoration", "carpet", "lighting", "bed",
                              "kitchen", "curtain"}),
       Rule("Hardware & DIY", {"hardware", "doityourself", "paint", "trade",
                               "building_materials", "glaziery", "flooring"}),
       Rule("Health", {"chemist", "pharmacy", "medical_supply", "nutrition_supplements",
                       "hearing_aids"}),
       Rule("Beauty", {"cosmetics", "hairdresser", "beauty", "salon", "tattoo", "perfumery"}),
       Rule("Automotive", {"car", "motorcycle", "tyres", "bicycle", "car_repair", "car_parts"}),
       Rule("Books & Stationery", {"books", "stationery", "newsagent", "copy", "bookmaker"}),
       Rule("Gifts & Hobbies", {"gift", "toys", "musical_instrument", "art", "craft", "photo",
                                "camera", "music"}),
       Rule("Liquor & Tobacco", {"alcohol", "wine", "tobacco", "e-cigarette"}),
       Rule("Department Stores", {"department_store", "general", "mall", "shopping_centre"}) >>

\* The if-statements of getCategory(types) of the Google Places service.
GOOGLE_RULES ==
    << Rule("Groceries", {"supermarket", "convenience_store", "grocery_or_supermarket"}),
       Rule("Food & Beverages", {"bakery", "food", "restaurant", "cafe", "bar", "meal_takeaway",
                                 "meal_delivery"}),
       Rule("Fashion", {"clothing_store"}),
       Rule("Accessories", {"shoe_store", "jewelry_store"}),
       Rule("Electronics", {"electronics_store"}),
       Rule("Home & Living", {"home_goods_store", "furniture_store"}),
       Rule("Hardware & DIY", {"hardware_store"}),
       Rule("Health", {"pharmacy", "drugstore", "doctor", "hospital", "dentist"}),
       Rule("Beauty", {"beauty_salon", "hair_care", "spa"}),
       Rule("Automotive", {"car_dealer", "car_repair", "gas_station", "car_wash"}),
       Rule("Books & Stationery", {"book_store", "library"}),
       Rule("Gifts & Hobbies", {"florist", "gift_shop", "pet_store", "art_gallery"}),
       Rule("Liquor & Tobacco", {"liquor_store"}),
       Rule("Department Stores", {"department_store", "shopping_mall"}) >>

\* The rules tried from the last to the first.
RECURSIVE FirstMatch_FromLast(_, _, _)
FirstMatch_FromLast(rules, given, k) ==
    LET j == Len(rules) + 1 - k IN
    IF k > Len(rules) THEN "General Retail"
    ELSE IF rules[j].members \cap given # {} THEN rules[j].category
    ELSE FirstMatch_FromLast(rules, given, k + 1)

\* if (<rule k matches>) return <category k>; ...; return 'General Retail'
RECURSIVE FirstMatch(_, _, _)
FirstMatch(rules, given, k) ==
    IF k > Len(rules) THEN "General Retail"
    ELSE IF rules[k].members \cap given # {} THEN rules[k].category
    ELSE FirstMatch(rules, given, k + 1)

\* getCategory(shopType) of the OSM service
getCategory(shopType) == FirstMatch(OSM_RULES, {ToLowerCase(shopType)}, 1)

\* getCategory(types) of the Google Places service; t = new Set(types)
getCategory_Google(types) == FirstMatch(GOOGLE_RULES, Range(types), 1)

\* ------------------------------------------------- transformToGeoFeature
\* Ratings are counted in hundredths of a star.
\* The digit at position k of str, NaN if there is none.
DigitAt(str, k) ==
    IF k > Len(str) THEN NaN
    ELSE LET Digits == "0123456789"
             at == {d \in 1..Len(Digits) : SubSeq(Digits, d, d) = SubSeq(str, k, k)}
         IN IF at = {} THEN NaN ELSE (CHOOSE d \in at : TRUE) - 1

\* parseFloat of a string without sign, exponent or leading blanks: the
\* digits before the point and up to two after it; NaN without a digit.
parseFloat(str) ==
    LET RECURSIVE IntEnd(_)
        IntEnd(k) == IF DigitAt(str, k) = NaN THEN k ELSE IntEnd(k + 1)
        RECURSIVE Value(_, _)
        Value(from, to) == IF to < from THEN 0 ELSE Value(from, to - 1) * 10 + DigitAt(str, to)
        e == IntEnd(1)
        point == e <= Len(str) /\ SubSeq(str, e, e) = "."
        d1 == IF point THEN DigitAt(str, e + 1) ELSE NaN
        d2 == IF d1 # NaN THEN DigitAt(str, e + 2) ELSE NaN
    IN IF e = 1 /\ d1 = NaN THEN NaN
       ELSE Value(1, e - 1) * 100 + (IF d1 = NaN THEN 0 ELSE d1 * 10)
                                  + (IF d2 = NaN THEN 0 ELSE d2)

\* The rating the tags give, NaN while rating is undefined: the first of
\* stars, rating and addr:rate that is present decides, also when it does
\* not parse; a rating above 5 is halved.
TagRating(tags) ==
    LET parsed == IF tags.stars # "" THEN parseFloat(tags.stars)
                  ELSE IF tags.rating # "" THEN parseFloat(tags.rating)
                  ELSE IF tags.addrRate # "" THEN parseFloat(tags.addrRate)
                  ELSE NaN
    IN IF parsed # NaN /\ parsed > 500 THEN parsed \div 2 ELSE parsed

\* seed - Math.floor(seed) for seed = Math.sin(idNum) * 10000, in millionths
\* (rounded down), for the ids of the model.
SIN_RAND ==
    (101 :> 257871) @@
    (102 :> 267913) @@
    (103 :> 886314) @@
    (104 :> 775968) @@
    (105 :> 647164) @@
    (106 :> 574999) @@
    (107 :> 817445) @@
    (108 :> 185054) @@
    (109 :> 426066) @@
    (110 :> 573219) @@
    (111 :> 485513) @@
    (112 :> 43956) @@
    (1234567 :> 521747) @@
    (1234568 :> 179670)

\* rating = Math.round((3.5 + rand * 1.5) * 10) / 10
synthesizeRating(idNum) ==
    ((35 * 1000000 + 15 * SIN_RAND[idNum] + 500000) \div 1000000) * 10

\* A transformation whose made-up rating follows the place of the element.
transformToGeoFeature_RatingByPlace(element) ==
    [id |-> "osm-" \o ToString(element.id),
     properties |-> [id |-> Str(ToString(element.id)),
                     rating |-> Dec(IF TagRating(element.tags) = NaN
                                    THEN 350 + 10 * ((element.lat \div 40) % 16)
                                    ELSE TagRating(element.tags))],
     keys |-> <<"id", "rating">>,
     geometry |-> Geometry("Point", <<element.lon, element.lat>>)]

transformToGeoFeature(element) ==
    LET tags == element.tags
        name == IF tags.shop # "" THEN tags.shop ELSE "Retail Store"
        shopType == IF tags.shop # "" THEN tags.shop ELSE "store"
        given == TagRating(tags)
        rating == IF given = NaN THEN synthesizeRating(element.id) ELSE given
    IN [id |-> "osm-" \o ToString(element.id),
        properties |-> [id |-> Str(ToString(element.id)),
                        geocode |-> Str("OSM-" \o Substring0(ToString(element.id), GeocodeIdChars)),
                        name |-> Str(name), type |-> Str("Store"),
                        category |-> Str(getCategory(shopType)),
                        subCategory |-> Str(shopType),
                        rating |-> Dec(rating)],
        keys |-> <<"id", "geocode", "name", "type", "category", "subCategory", "rating">>,
        geometry |-> Geometry("Point", <<element.lon, element.lat>>)]

\* elements.filter(el => el.lat && el.lon ...).map(transformToGeoFeature)
Features(elements) ==
    LET kept == SelectSeq(elements, LAMBDA el : el.lat # 0 /\ el.lon # 0)
    IN [k \in 1..Len(kept) |-> transformToGeoFeature(kept[k])]

\* ------------------------------------------------------ export and import
\* The elements of strs without repetitions, in the order of their first
\* occurrence (insertion order of a Set, and of the keys of an object).
Unique(strs) ==
    LET firsts == {k \in 1..Len(strs) : \A j \in 1..(k - 1) : strs[j] # strs[k]}
    IN [n \in 1..Cardinality(firsts) |->
          strs[CHOOSE k \in firsts : Cardinality({j \in firsts : j < k}) = n - 1]]

\* const convertToCSV = (features: GeoFeature[]) => ...
convertToCSV(features) ==
    LET headers == Unique(Flatten([i \in 1..Len(features) |-> features[i].keys])) \o <<"geometry">>
        Quoted(str) == "\"" \o DoubleQuotes(str) \o "\""
        Cell(f, header) ==
            IF header = "geometry" THEN Quoted(StringifyGeometry(f.geometry))
            ELSE IF header \notin Range(f.keys) THEN ""
            ELSE LET val == f.properties[header]
                 IN IF val.t = "undefined" THEN ""
                    ELSE IF val.t = "string"
                         THEN IF Includes(val.s, ",") THEN "\"" \o DoubleQuotes(val.s) \o "\""
                              ELSE DoubleQuotes(val.s)
                    ELSE IF val.t = "object" THEN Quoted(StringifyArray(val.a))
                    ELSE NumberToString(val)
        Row(f) == Join([h \in 1..Len(headers) |-> Cell(f, headers[h])], ",")
    IN IF Len(features) = 0 THEN ""
       ELSE Join(<<Join(headers, ",")>> \o [i \in 1..Len(features) |-> Row(features[i])], "\n")

\* An entry of dataToImport: an object with its keys in their order and its
\* values, or a value that is no object.
Obj(keys, vals) == [object |-> TRUE, keys |-> keys, vals |-> vals]
NoObj == [object |-> FALSE, keys |-> <<>>, vals |-> <<>>]

\* The branch of handleFileUpload for names ending in .csv
ParseCSV(content) ==
    LET lines == Split(content, "\n")
        split == Split(lines[1], ",")
        headers == [k \in 1..Len(split) |-> Trim(split[k])]
        Value(row, index) ==
            IF index > Len(row) THEN Undefined
            ELSE LET val == Trim(row[index])
                 IN IF IsNumeric(val) THEN Dec(parseFloat(val)) ELSE Str(val)
        Record(line) ==
            LET row == Split(line, ",")
            IN Obj(Unique(headers),
                   [h \in Range(headers) |->
                      Value(row, SetMax({k \in 1..Len(headers) : headers[k] = h}))])
        kept == SelectSeq(Tail(lines), LAMBDA line : Trim(line) # "")
    IN [i \in 1..Len(kept) |-> Record(kept[i])]

\* A file the user picks: its name and its text; of the text of a JSON
\* file what JSON.parse makes of it is given: a SyntaxError (malformed), a
\* value that is no array, or the entries of the array.
File(name, content, malformed, array, entries) ==
    [name |-> name, content |-> content, malformed |-> malformed, array |-> array,
     entries |-> entries]
NoFile == File("", "", FALSE, FALSE, <<>>)

\* The try block of reader.onload up to updateCollection: dataToImport, or
\* the throw.
ReadFile(file) ==
    IF EndsWith(file.name, ".csv") THEN [ok |-> TRUE, data |-> ParseCSV(file.content)]
    ELSE IF EndsWith(file.name, ".json")
         THEN IF file.malformed \/ ~file.array THEN [ok |-> FALSE, data |-> <<>>]
              ELSE [ok |-> TRUE, data |-> file.entries]
    ELSE [ok |-> TRUE, data |-> <<>>]

\* A merge for which the record comes first: { ...match, ...feature, ... }
\* with the record's id and geometry taken where it has them.
Merged_RecordOverFeature(feature, match) ==
    [feature EXCEPT
       !.id = IF "id" \in Range(match.keys) /\ match.vals["id"].t = "string"
              THEN match.vals["id"].s ELSE @,
       !.properties = [k \in Range(feature.keys) \cup Range(match.keys) |->
                         IF k \in Range(match.keys) THEN match.vals[k]
                         ELSE feature.properties[k]],
       !.keys = Unique(match.keys \o feature.keys)]

\* { ...feature, properties: { ...feature.properties, ...match } }
Merged(feature, match) ==
    [feature EXCEPT
       !.properties = [k \in Range(feature.keys) \cup Range(match.keys) |->
                         IF k \in Range(match.keys) THEN match.vals[k]
                         ELSE feature.properties[k]],
       !.keys = Unique(feature.keys \o match.keys)]

\* d.geocode === feature.properties.geocode
GeocodeMatches(d, feature) ==
    d.object /\ "geocode" \in Range(d.keys) /\ d.vals["geocode"] = feature.properties.geocode

\* const updateCollection = (collection: GeoCollection) => ...
updateCollection(collection, dataToImport) ==
    [i \in 1..Len(collection) |->
        LET found == {k \in 1..Len(dataToImport) : GeocodeMatches(dataToImport[k], collection[i])}
        IN IF found = {} THEN collection[i]
           ELSE Merged(collection[i], dataToImport[SetMin(found)])]

\* ------------------------------------------------------------------ state
VARIABLES
    world,          \* the elements the endpoint holds
    districts, taluks, villages, pincodes,   \* useState(...Data).features
    stores,         \* useState<GeoFeature[]>([])
    selectedRegionIndices,
    isScanning,
    alert,          \* text of the last window.alert of the scan handler
    regionsToScan, regionIdx, allStores,     \* locals of handleScanStores
    download,       \* name and text of the file handleLayerExport offered last
    upload,         \* the file handleFileUpload read last
    imports,        \* number of files read so far
    fnArg, fnRes,   \* a library function called on its own: its argument, its result
    transformed,    \* the elements given to transformToGeoFeature so far, with its results
    generatedVillages, vId, villageGeocodeCounter,   \* module state of the village generator
    genTaluk,       \* position in talukDataRaw of the taluk talukDataRaw.forEach is at
    genPc,          \* where the generator is: "real", "random", "done"
    count, attempts,   \* locals of the callback of talukDataRaw.forEach
    pinGen,         \* the pincode generator: where it is (pc, i), generatedPincodes
                    \* (features), where the tessellation failed, whether the error escaped
    stack,          \* activations of fetchRetailStoresBounded, outermost first
    phase,          \* what the scan is suspended on
    attempt,        \* parameter attempt of the running executeOverpassQuery
    top,            \* how the depth-0 call settled, while its caller resumes
    sent,           \* requests sent so far for the running query
    leafQueries,    \* depth-2 queries issued by the current depth-0 call
    rootErr,        \* message the depth-0 query failed with, "" if it did not
    quad,           \* how each depth-1 quadrant call of the depth-0 call ended
    exits,          \* calls of fetchRetailStoresBounded settled by the last step
    caught,         \* error the catch block of fetchRetailStoresBounded handled in the last step
    only429,        \* every answer to the running query so far was HTTP 429
    rootBox,        \* box of the current depth-0 call
    answers,        \* how each request of the running query ended, and the wait it led to
    inFlight,       \* number of fetch(OVERPASS_API_URL, ...) calls that have not settled
    progress,       \* the depth-0 call was given an onProgress callback
    reported,       \* the percentages the last step reported to onProgress
    recording       \* how much of the history of a call is kept: "off", "count", "all", "timing"

fnVars == <<fnArg, fnRes, transformed>>
genVars == <<generatedVillages, vId, villageGeocodeCounter, genTaluk, genPc, count, attempts,
             pinGen>>
ioVars == <<download, upload, imports>>
libVars == <<fnVars, genVars, ioVars>>
appVars == <<world, districts, taluks, villages, pincodes, stores,
             selectedRegionIndices, isScanning, alert,
             regionsToScan, regionIdx, allStores, libVars>>
scanVars == <<stack, phase, attempt, top, sent, leafQueries, rootErr, quad, exits,
              caught, only429, rootBox, answers, inFlight, progress, reported, recording>>
vars == <<appVars, scanVars>>

NoCall == [fn |-> "", arg |-> <<>>]
NoResult == [done |-> FALSE, val |-> <<>>]
FnIdle == fnArg = NoCall /\ fnRes = NoResult /\ transformed = <<>>

NoDownload == [filename |-> "", content |-> ""]
IoIdle == download = NoDownload /\ upload = NoFile /\ imports = 0

\* The try block of the pincode generator is entered: const generatedPincodes = [].
PinStart == [pc |-> "build", i |-> 0, features |-> <<>>, failed |-> "", escaped |-> FALSE]

\* The tessellation went through: every cell gave a polygon.
PinDone ==
    [pc |-> "done", i |-> Len(REAL_PINCODES) + 1,
     features |-> generatedPincodes(1..Len(REAL_PINCODES)), failed |-> "", escaped |-> FALSE]

\* The generator has run: the module is loaded.
GenDone ==
    /\ pinGen = PinDone
    /\ generatedVillages = villagesData
    /\ vId = NumVillages
    /\ villageGeocodeCounter = VillageGeocodeStart + NumVillages
    /\ genTaluk = Len(talukDataRaw) + 1
    /\ genPc = "done"
    /\ count = 0
    /\ attempts = 0

NoOutcome == [how |-> "none", val |-> <<>>, msg |-> ""]
Returned(val) == [how |-> "return", val |-> val, msg |-> ""]
Thrown(msg) == [how |-> "throw", val |-> <<>>, msg |-> msg]

NoQuad == [q \in 1..4 |-> "none"]
\* What is kept of the history of a depth-0 call: with "count" the number
\* of depth-2 queries (leafQueries), with "all" also rootErr, quad, exits,
\* caught and only429, with "timing" also answers; with "progress" the
\* number of depth-2 queries and reported.
Counting(rec) == rec # "off"
History(rec) == rec \in {"all", "timing"}
Timing(rec) == rec = "timing"

NoCatch == [msg |-> "", depth |-> 0]
NoBox == [south |-> 0, west |-> 0, north |-> 0, east |-> 0]
NoGhost(rec) ==
    [rec |-> rec, leafQueries |-> 0, rootErr |-> "", quad |-> NoQuad, exits |-> {},
     caught |-> NoCatch]

\* An activation of fetchRetailStoresBounded.  idx is its position among its
\* parent's quadrants (0 at depth 0); qi is the quadrant its for-loop is at
\* (0 while its own query runs); queryOk and anyOk record whether its own
\* query, or some quadrant below it, was answered.
Frame(box, depth, idx) ==
    [box |-> box, depth |-> depth, idx |-> idx, qi |-> 0, results |-> <<>>,
     queryOk |-> FALSE, anyOk |-> FALSE]

Top(stk) == stk[Len(stk)]
Pop(stk) == SubSeq(stk, 1, Len(stk) - 1)

\* The quadrants in the order SW, NW, SE, NE.
Quadrants_ColumnOrder(b) ==
    LET midLat == (b.south + b.north) \div 2
        midLng == (b.west + b.east) \div 2
    IN << [south |-> b.south, west |-> b.west, north |-> midLat, east |-> midLng],
          [south |-> midLat, west |-> b.west, north |-> b.north, east |-> midLng],
          [south |-> b.south, west |-> midLng, north |-> midLat, east |-> b.east],
          [south |-> midLat, west |-> midLng, north |-> b.north, east |-> b.east] >>

\* Quadrants cut at a quarter of the width instead of the middle.
Quadrants_CutAtQuarter(b) ==
    LET midLat == (b.south + b.north) \div 2
        midLng == b.west + (b.east - b.west) \div 4
    IN << [south |-> b.south, west |-> b.west, north |-> midLat, east |-> midLng],
          [south |-> b.south, west |-> midLng, north |-> midLat, east |-> b.east],
          [south |-> midLat, west |-> b.west, north |-> b.north, east |-> midLng],
          [south |-> midLat, west |-> midLng, north |-> b.north, east |-> b.east] >>

\* const quadrants = [SW, SE, NW, NE]
Quadrants(b) ==
    LET midLat == (b.south + b.north) \div 2
        midLng == (b.west + b.east) \div 2
    IN << [south |-> b.south, west |-> b.west, north |-> midLat, east |-> midLng],
          [south |-> b.south, west |-> midLng, north |-> midLat, east |-> b.east],
          [south |-> midLat, west |-> b.west, north |-> b.north, east |-> midLng],
          [south |-> midLat, west |-> midLng, north |-> b.north, east |-> b.east] >>

\* executeOverpassQuery(query, onProgress) is called for the top activation:
\* attempt 1, and the first request goes out.
StartQuery(stk, g) ==
    [stack |-> stk, phase |-> "fetch", attempt |-> 1, sent |-> 1, top |-> NoOutcome,
     g |-> [g EXCEPT !.leafQueries = IF Counting(g.rec) /\ Top(stk).depth = MaxSplitDepth THEN @ + 1 ELSE @]]

\* How a settled call counts for its parent: "ok" when its own query was
\* answered, "recovered" when it was split and some quadrant below it was
\* answered, "failed" otherwise.
OutcomeClass(f, out) ==
    IF out.how = "return" /\ f.queryOk THEN "ok"
    ELSE IF out.how = "return" /\ f.anyOk THEN "recovered"
    ELSE "failed"

Exit(f, out, cause) ==
    [depth |-> f.depth, how |-> out.how, msg |-> out.msg,
     empty |-> (out.val = <<>>), split |-> (f.qi > 0), cause |-> cause]

RECURSIVE Settle(_, _, _, _, _)
RECURSIVE NextQuadrant(_, _)

\* The for-loop over the quadrants of the top activation moves on: the next
\* quadrant is scanned at depth + 1 without a progress callback, or, after the
\* fourth, the activation returns its results.
NextQuadrant(stk, g) ==
    LET p == Top(stk) IN
    IF p.qi < 4
    THEN StartQuery(Pop(stk) \o << [p EXCEPT !.qi = @ + 1],
                                   Frame(Quadrants(p.box)[p.qi + 1], p.depth + 1, p.qi + 1) >>,
                    g)
    ELSE Settle(Pop(stk), p, Returned(p.results), "", g)

\* A loop without the try/catch around the quadrant call: an error raised by
\* a quadrant settles the parent with that error.
Settle_Uncaught(rest, f, out, cause, g) ==
    LET g1 == IF History(g.rec)
              THEN [g EXCEPT !.exits = @ \cup {Exit(f, out, cause)},
                             !.quad = IF f.depth = 1
                                      THEN [@ EXCEPT ![f.idx] = OutcomeClass(f, out)]
                                      ELSE @]
              ELSE g
    IN IF rest = <<>>
       THEN [stack |-> <<>>, phase |-> "returned", attempt |-> 0, sent |-> 0,
             top |-> out, g |-> g1]
       ELSE IF out.how = "return"
       THEN [stack |-> Pop(rest) \o
                       << [Top(rest) EXCEPT
                             !.results = @ \o out.val,
                             !.anyOk = @ \/ (History(g.rec) /\ OutcomeClass(f, out) # "failed")] >>,
             phase |-> "pacing", attempt |-> 0, sent |-> 0, top |-> NoOutcome,
             g |-> g1]
       ELSE Settle(Pop(rest), Top(rest), out, cause, g1)

\* The activation f, already popped, settles with out (cause: the message its
\* query failed with, if it did).  At depth 0 the caller's await resumes.  In a
\* parent's loop a returned list is pushed onto results and the 200 ms pause
\* starts; a raised error is caught and logged, and the loop goes on at once.
Settle(rest, f, out, cause, g) ==
    LET g1 == IF History(g.rec)
              THEN [g EXCEPT !.exits = @ \cup {Exit(f, out, cause)},
                             !.quad = IF f.depth = 1
                                      THEN [@ EXCEPT ![f.idx] = OutcomeClass(f, out)]
                                      ELSE @]
              ELSE g
    IN IF rest = <<>>
       THEN [stack |-> <<>>, phase |-> "returned", attempt |-> 0, sent |-> 0,
             top |-> out, g |-> g1]
       ELSE IF out.how = "return"
       THEN [stack |-> Pop(rest) \o
                       << [Top(rest) EXCEPT
                             !.results = @ \o out.val,
                             !.anyOk = @ \/ (History(g.rec) /\ OutcomeClass(f, out) # "failed")] >>,
             phase |-> "pacing", attempt |-> 0, sent |-> 0, top |-> NoOutcome,
             g |-> g1]
       ELSE NextQuadrant(rest, g1)

\* A split condition that still splits at depth 2.
SplitEligible_AtMaxDepth(depth, errorMsg) ==
    /\ depth <= MaxSplitDepth
    /\ \/ Includes(errorMsg, "OSM_ERROR_504")
       \/ Includes(errorMsg, "OSM_ERROR_502")
       \/ Includes(errorMsg, "timeout")

\* The split condition of the catch block.
SplitEligible(depth, errorMsg) ==
    /\ depth < MaxSplitDepth
    /\ \/ Includes(errorMsg, "OSM_ERROR_504")
       \/ Includes(errorMsg, "OSM_ERROR_502")
       \/ Includes(errorMsg, "timeout")

\* A catch block that rethrows at every depth what it does not split.
Catch_RethrowAtAnyDepth(stk, errorMsg, g) ==
    LET f == Top(stk)
        gc == IF History(g.rec) THEN [g EXCEPT !.caught = [msg |-> errorMsg, depth |-> f.depth]]
              ELSE g
    IN
    IF Includes(errorMsg, "OSM_ERROR_429")
    THEN Settle(Pop(stk), f, Thrown(RateLimitMessage), errorMsg, gc)
    ELSE IF SplitEligible(f.depth, errorMsg)
    THEN NextQuadrant(stk, [gc EXCEPT !.rootErr = IF History(g.rec) /\ f.depth = 0
                                                  THEN errorMsg ELSE @])
    ELSE Settle(Pop(stk), f, Thrown(errorMsg), errorMsg, gc)

\* A catch block without the branch for OSM_ERROR_429.
Catch_NoRateLimitBranch(stk, errorMsg, g) ==
    LET f == Top(stk)
        gc == IF History(g.rec) THEN [g EXCEPT !.caught = [msg |-> errorMsg, depth |-> f.depth]]
              ELSE g
    IN
    IF SplitEligible(f.depth, errorMsg)
    THEN NextQuadrant(stk, [gc EXCEPT !.rootErr = IF History(g.rec) /\ f.depth = 0
                                                  THEN errorMsg ELSE @])
    ELSE IF f.depth > 0
    THEN Settle(Pop(stk), f, Returned(<<>>), errorMsg, gc)
    ELSE Settle(Pop(stk), f, Thrown(errorMsg), errorMsg, gc)

\* The catch block of fetchRetailStoresBounded: the query of the top
\* activation raised an error with message errorMsg.
Catch(stk, errorMsg, g) ==
    LET f == Top(stk)
        gc == IF History(g.rec) THEN [g EXCEPT !.caught = [msg |-> errorMsg, depth |-> f.depth]]
              ELSE g
    IN
    IF Includes(errorMsg, "OSM_ERROR_429")
    THEN Settle(Pop(stk), f, Thrown(RateLimitMessage), errorMsg, gc)
    ELSE IF SplitEligible(f.depth, errorMsg)
    THEN NextQuadrant(stk, [gc EXCEPT !.rootErr = IF History(g.rec) /\ f.depth = 0
                                                  THEN errorMsg ELSE @])
    ELSE IF f.depth > 0
    THEN Settle(Pop(stk), f, Returned(<<>>), errorMsg, gc)
    ELSE Settle(Pop(stk), f, Thrown(errorMsg), errorMsg, gc)

\* The try block of fetchRetailStoresBounded: the query returned features.
QueryReturned(stk, features, g) ==
    Settle(Pop(stk), [Top(stk) EXCEPT !.queryOk = TRUE], Returned(features), "", g)

\* The onProgress callback handleScanStores passes: it sets the percentage
\* and the status text shown, and returns.
onProgress(pct) == "returns"

\* A callback that fails when told of 60 percent.
AnsweredOk_CallbackThrows(stk, a, cb, features, g) ==
    IF cb /\ a = 1 /\ Len(stk) = 1
    THEN Catch(stk, "onProgress failed", g)
    ELSE QueryReturned(stk, features, g)

\* executeOverpassQuery after an answer with response.ok, on attempt a of
\* the query of the top activation: with a callback (cb) the first attempt
\* of the depth-0 query calls onProgress(60, ...) and onProgress(90, ...)
\* inside the try block, where an error of the callback would be caught and
\* rethrown to fetchRetailStoresBounded.
AnsweredOk(stk, a, cb, features, g) ==
    IF cb /\ a = 1 /\ Len(stk) = 1 /\ "throws" \in {onProgress(60), onProgress(90)}
    THEN Catch(stk, "onProgress failed", g)
    ELSE QueryReturned(stk, features, g)

\* The percentages the catch block of fetchRetailStoresBounded reports for
\* the error errorMsg of the top activation: 50 when it splits.
CatchReports(stk, errorMsg) ==
    IF ~Includes(errorMsg, "OSM_ERROR_429") /\ SplitEligible(Top(stk).depth, errorMsg)
    THEN <<50>> ELSE <<>>

\* ---------------------------------------------------------------- actions
Ghost ==
    [rec |-> recording, leafQueries |-> leafQueries, rootErr |-> rootErr, quad |-> quad,
     exits |-> {}, caught |-> NoCatch]

\* The variables of the scan take the values of the record a step computed.
SetScan(step) ==
    \E r \in {step} :
        /\ stack' = r.stack
        /\ phase' = r.phase
        /\ attempt' = r.attempt
        /\ top' = r.top
        /\ sent' = r.sent
        /\ leafQueries' = r.g.leafQueries
        /\ rootErr' = r.g.rootErr
        /\ quad' = r.g.quad
        /\ exits' = r.g.exits
        /\ caught' = r.g.caught
        /\ only429' = TRUE
        /\ recording' = recording

IdleScan ==
    [stack |-> <<>>, phase |-> "idle", attempt |-> 0, sent |-> 0, top |-> NoOutcome,
     g |-> NoGhost(recording)]

Loaded ==
    /\ world \in Worlds
    /\ districts = districtsData
    /\ taluks = taluksData
    /\ villages = villagesData
    /\ pincodes = generatedPincodes(1..Len(REAL_PINCODES))
    /\ stores = <<>>
    /\ selectedRegionIndices = {}
    /\ isScanning = FALSE
    /\ alert = ""
    /\ regionsToScan = <<>>
    /\ regionIdx = 0
    /\ allStores = <<>>
    /\ stack = <<>>
    /\ phase = "idle"
    /\ attempt = 0
    /\ top = NoOutcome
    /\ sent = 0
    /\ leafQueries = 0
    /\ rootErr = ""
    /\ quad = NoQuad
    /\ exits = {}
    /\ caught = NoCatch
    /\ only429 = TRUE
    /\ rootBox = NoBox
    /\ answers = <<>>
    /\ inFlight = 0
    /\ progress = FALSE
    /\ reported = <<>>
    /\ recording = "off"

Init == Loaded /\ FnIdle /\ GenDone /\ IoIdle

\* toggleRegion(index); an index is a position in scanRegions, from 1 here.
toggleRegion(index) ==
    /\ selectedRegionIndices' =
         IF index \in selectedRegionIndices
         THEN selectedRegionIndices \ {index}
         ELSE selectedRegionIndices \cup {index}
    /\ UNCHANGED <<world, districts, taluks, villages, pincodes, stores, isScanning,
                   alert, regionsToScan, regionIdx, allStores, libVars, scanVars>>

\* scanRegions.filter((_, idx) => selectedRegionIndices.has(idx))
SelectedRegions(sel) ==
    LET RECURSIVE Pick(_)
        Pick(k) == IF k > Len(scanRegions) THEN <<>>
                   ELSE (IF k \in sel THEN <<scanRegions[k]>> ELSE <<>>) \o Pick(k + 1)
    IN Pick(1)

\* A setter that appends the scan's features to the stores shown before.
SetStores_Merge(prev, all) == prev \o all

\* setStores(allStores)
SetStores(prev, all) == all

\* if (onProgress) onProgress(pct, ...), for each of pcts in turn: only the
\* query of the depth-0 call has the callback, the quadrant calls are given
\* undefined.
Report(pcts) ==
    /\ reported' = IF progress /\ Len(stack) = 1 /\ recording = "progress" THEN pcts ELSE <<>>
    /\ UNCHANGED progress

\* The depth-0 call starts with the callback handleScanStores passes: its
\* query reports 10 percent.
ReportStart(given) ==
    /\ progress' = given
    /\ reported' = IF given /\ recording = "progress" THEN <<10>> ELSE <<>>

\* await fetch(OVERPASS_API_URL, ...): the number of requests a step sends
\* that ends with the scan in phase ph.
FetchCalls(ph) == IF ph = "fetch" THEN 1 ELSE 0

\* A fetch that is not told of the abort: it stays pending.
Aborted_NoSignal(n) == n

\* controller.abort() ends the fetch that was given controller.signal.
Aborted(n) == n - 1

\* handleScanStores, up to its first await: confirmed is the answer to
\* window.confirm, asked when no region is selected.  The button is disabled
\* while isScanning.
handleScanStores(confirmed) ==
    /\ ~isScanning
    /\ phase = "idle"
    /\ LET sel == SelectedRegions(selectedRegionIndices)
           regions == IF sel # <<>> THEN sel
                      ELSE IF confirmed THEN scanRegions ELSE <<>>
       IN IF regions = <<>>
          THEN UNCHANGED vars
          ELSE /\ isScanning' = TRUE
               /\ alert' = ""
               /\ regionsToScan' = regions
               /\ regionIdx' = 1
               /\ allStores' = <<>>
               /\ SetScan(StartQuery(<<Frame(regions[1].bbox, 0, 0)>>, NoGhost(recording)))
               /\ rootBox' = regions[1].bbox
               /\ inFlight' = inFlight + FetchCalls(phase')
               /\ ReportStart(TRUE)
               /\ UNCHANGED <<world, districts, taluks, villages, pincodes, stores,
                              selectedRegionIndices, libVars, answers>>

\* A catch block that shows what the regions scanned so far gave.
StoresAfterFailure_Partial(prev, all) == all

\* catch (error) { console.error(...); alert(...) }: setStores is not
\* reached, the stores stay what they were.
StoresAfterFailure(prev, all) == prev

\* handleScanStores resumes after await fetchRetailStoresBounded(...).
ScanResume ==
    /\ phase = "returned"
    /\ IF top.how = "return"
       THEN LET all == allStores \o top.val IN
            IF regionIdx < Len(regionsToScan)
            THEN /\ allStores' = all
                 /\ regionIdx' = regionIdx + 1
                 /\ SetScan(StartQuery(<<Frame(regionsToScan[regionIdx + 1].bbox, 0, 0)>>,
                                       NoGhost(recording)))
                 /\ rootBox' = regionsToScan[regionIdx + 1].bbox
                 /\ UNCHANGED <<stores, isScanning, alert, regionsToScan>>
            ELSE /\ stores' = SetStores(stores, all)
                 /\ alert' = IF all = <<>> THEN "No stores found in scanned sectors."
                             ELSE alert
                 /\ isScanning' = FALSE
                 /\ regionsToScan' = <<>> /\ regionIdx' = 0 /\ allStores' = <<>>
                 /\ SetScan(IdleScan)
                 /\ rootBox' = NoBox
       ELSE /\ alert' = "Scan failed. Check network connection or try again later."
            /\ isScanning' = FALSE
            /\ regionsToScan' = <<>> /\ regionIdx' = 0 /\ allStores' = <<>>
            /\ SetScan(IdleScan)
            /\ rootBox' = NoBox
            /\ stores' = StoresAfterFailure(stores, allStores)
    /\ inFlight' = inFlight + FetchCalls(phase')
    /\ ReportStart(phase' = "fetch")
    /\ UNCHANGED <<world, districts, taluks, villages, pincodes, selectedRegionIndices,
                   libVars, answers>>

\* May executeOverpassQuery retry after a 429 / a gateway status / an abort
\* received on attempt a?
Retry429(a) == a <= Max429Attempt
RetryGateway_Thrice(a) == a <= MaxGatewayAttempt + 1
RetryGateway(a) == a <= MaxGatewayAttempt
RetryAbort_Thrice(a) == a <= MaxAbortAttempt + 1
RetryAbort(a) == a <= MaxAbortAttempt

\* Values of Math.random() * 1000: the ends of [0, 1000) and one between.
Jitters == {0, 500, JitterRange - 1}

\* A delay that grows linearly with the attempt.
Delay429_Linear(a, jitter) == BackoffBase * a + jitter

\* const delay = 3000 * Math.pow(2, attempt - 1) + (Math.random() * 1000)
Delay429(a, jitter) == BackoffBase * 2 ^ (a - 1) + jitter

\* How a request ended: kind is "http" with the status of the response,
\* "abort" or "error" when the fetch rejected; attempt is the attempt the
\* request belonged to; retried tells whether executeOverpassQuery calls
\* itself with attempt + 1, and wait is the delay of the setTimeout it awaits
\* before it does (0 when it awaits none).
Answer(kind, status, a, retried, wait) ==
    [kind |-> kind, status |-> status, attempt |-> a, retried |-> retried, wait |-> wait]

\* The log of the running query gets an entry; the first request of a query
\* starts its log.
LogAnswer(entry) ==
    answers' = IF ~Timing(recording) THEN answers
               ELSE IF attempt = 1 THEN <<entry>>
               ELSE Append(answers, entry)

\* The request is answered with HTTP 200 and a body that parses.
RespondOk ==
    /\ phase = "fetch"
    /\ SetScan(AnsweredOk(stack, attempt, progress,
                           Features(Elements(world, Top(stack).box)), Ghost))
    /\ LogAnswer(Answer("http", 200, attempt, FALSE, 0))
    /\ Report(IF attempt = 1 THEN <<60, 90>> ELSE <<>>)
    /\ inFlight' = inFlight - 1 + FetchCalls(phase')
    /\ UNCHANGED <<appVars, rootBox>>

\* The request is answered with a status that is retried after a delay.
RespondRetry(status) ==
    /\ phase = "fetch"
    /\ \/ /\ status = 429 /\ Retry429(attempt)
          /\ \E jitter \in (IF Timing(recording) THEN Jitters ELSE {0}) :
                LogAnswer(Answer("http", status, attempt, TRUE, Delay429(attempt, jitter)))
       \/ /\ status \in {502, 504} /\ RetryGateway(attempt)
          /\ LogAnswer(Answer("http", status, attempt, TRUE, GatewayDelay))
    /\ phase' = "backoff"
    /\ exits' = {}
    /\ caught' = NoCatch
    /\ only429' = (only429 /\ (History(recording) => status = 429))
    /\ inFlight' = inFlight - 1
    /\ Report(IF status = 429 THEN <<20>> ELSE <<25>>)
    /\ UNCHANGED <<appVars, stack, attempt, top, sent, leafQueries, rootErr, quad,
                   rootBox, recording>>

\* The request is answered with a status that is not retried (any more):
\* throw new Error(`OSM_ERROR_${response.status}`).
RespondError(status) ==
    /\ phase = "fetch"
    /\ status # 200
    /\ ~(status = 429 /\ Retry429(attempt))
    /\ ~(status \in {502, 504} /\ RetryGateway(attempt))
    /\ SetScan(Catch(stack, "OSM_ERROR_" \o ToString(status), Ghost))
    /\ LogAnswer(Answer("http", status, attempt, FALSE, 0))
    /\ Report(CatchReports(stack, "OSM_ERROR_" \o ToString(status)))
    /\ inFlight' = inFlight - 1 + FetchCalls(phase')
    /\ UNCHANGED <<appVars, rootBox>>

\* The delay before a retry is over: executeOverpassQuery(query, onProgress,
\* attempt + 1) sends the next request.
RetryTimer ==
    /\ phase = "backoff"
    /\ phase' = "fetch"
    /\ attempt' = attempt + 1
    /\ sent' = sent + 1
    /\ exits' = {}
    /\ caught' = NoCatch
    /\ inFlight' = inFlight + FetchCalls(phase')
    /\ Report(<<>>)
    /\ UNCHANGED <<appVars, stack, top, leafQueries, rootErr, quad, only429, rootBox,
                   answers, recording>>

\* The 120 s timer aborts the request: the fetch rejects with an AbortError.
FetchAborted(msg) ==
    /\ phase = "fetch"
    /\ IF RetryAbort(attempt)
       THEN /\ attempt' = attempt + 1
            /\ sent' = sent + 1
            /\ exits' = {}
            /\ caught' = NoCatch
            /\ only429' = (only429 /\ ~History(recording))
            /\ LogAnswer(Answer("abort", 0, attempt, TRUE, 0))
            /\ UNCHANGED <<stack, phase, top, leafQueries, rootErr, quad, recording>>
       ELSE /\ SetScan(Catch(stack, msg, Ghost))
            /\ LogAnswer(Answer("abort", 0, attempt, FALSE, 0))
    /\ Report(IF RetryAbort(attempt) THEN <<>> ELSE CatchReports(stack, msg))
    /\ inFlight' = Aborted(inFlight) + FetchCalls(phase')
    /\ UNCHANGED <<appVars, rootBox>>

\* The fetch, or the parsing of the body, fails with another error.
FetchFailed(msg) ==
    /\ phase = "fetch"
    /\ SetScan(Catch(stack, msg, Ghost))
    /\ LogAnswer(Answer("error", 0, attempt, FALSE, 0))
    /\ Report(CatchReports(stack, msg))
    /\ inFlight' = inFlight - 1 + FetchCalls(phase')
    /\ UNCHANGED <<appVars, rootBox>>

\* The 200 ms pause after a quadrant's results is over.
PacingTimer ==
    /\ phase = "pacing"
    /\ SetScan(NextQuadrant(stack, Ghost))
    /\ inFlight' = inFlight + FetchCalls(phase')
    /\ Report(<<>>)
    /\ UNCHANGED <<appVars, rootBox, answers>>

\* A step of fetchRetailStoresBounded and the executeOverpassQuery below it.
CallStep ==
    \/ RetryTimer
    \/ PacingTimer
    \/ \E status \in Statuses : RespondRetry(status)
    \/ \E status \in Statuses : RespondError(status)
    \/ \E msg \in AbortMessages : FetchAborted(msg)
    \/ \E msg \in OtherMessages : FetchFailed(msg)
    \/ RespondOk

Next ==
    \/ \E index \in RegionIndices : toggleRegion(index)
    \/ \E confirmed \in BOOLEAN : handleScanStores(confirmed)
    \/ CallStep
    \/ ScanResume

\* The application: the user selects regions and scans them.
Spec == Init /\ [][Next]_vars

\* The inputs of a direct call fetchRetailStoresBounded(south, west, north,
\* east): a data set and a box.
CallInputs ==
    { <<World12, ScenarioBox>>,
      <<WorldEdge, BBoxOfRing(COORDS_DEVANAHALLI)>>,
      <<WorldEdge, BBoxOfRing(COORDS_DODDABALLAPUR)>> }

\* fetchRetailStoresBounded has just been called at depth 0, without the
\* application around it, and its first request is out.
CallStarted(rec) ==
    /\ \E in \in CallInputs :
          /\ world = in[1]
          /\ stack = <<Frame(in[2], 0, 0)>>
          /\ rootBox = in[2]
    /\ districts = districtsData
    /\ taluks = taluksData
    /\ villages = villagesData
    /\ pincodes = generatedPincodes(1..Len(REAL_PINCODES))
    /\ stores = <<>>
    /\ selectedRegionIndices = {}
    /\ isScanning = FALSE
    /\ alert = ""
    /\ regionsToScan = <<>>
    /\ regionIdx = 0
    /\ allStores = <<>>
    /\ phase = "fetch"
    /\ attempt = 1
    /\ top = NoOutcome
    /\ sent = 1
    /\ leafQueries = 0
    /\ rootErr = ""
    /\ quad = NoQuad
    /\ exits = {}
    /\ caught = NoCatch
    /\ only429 = TRUE
    /\ answers = <<>>
    /\ inFlight = 1
    /\ progress \in (IF rec = "progress" THEN BOOLEAN ELSE {FALSE})
    /\ reported = (IF progress THEN <<10>> ELSE <<>>)
    /\ recording = rec
    /\ FnIdle /\ GenDone /\ IoIdle


\* One call of fetchRetailStoresBounded at depth 0, up to its settling.
SpecCall == CallStarted("all") /\ [][CallStep]_vars

\* Every request settles (with an answer, a failure, or the abort of the
\* 120 s timer) and every timer fires, so a call that can take a step
\* eventually takes one.
\* Of the history of the call only leafQueries is kept here.
FairSpecCall == CallStarted("count") /\ [][CallStep]_vars /\ WF_vars(CallStep)

\* ------------------------------------------------- getCategory on its own
\* Shop tags: every value the rules of getCategory(shopType) name, some of
\* them in other letter cases, and values they do not name.
\* Google place types: those the rules of getCategory(types) name and two
\* they do not; a place has up to two of them, in either order.
CategoryCalls ==
    LET ShopTypes ==
            UNION {OSM_RULES[k].members : k \in 1..Len(OSM_RULES)}
              \cup {"Supermarket", "BAKERY", "Car_Repair", "Mall", "store", "kiosk", "", "yes"}
        PlaceTypes ==
            UNION {GOOGLE_RULES[k].members : k \in 1..Len(GOOGLE_RULES)}
              \cup {"store", "point_of_interest"}
        PlaceTypeLists ==
            {<<>>} \cup {<<a>> : a \in PlaceTypes} \cup {<<a, b>> : a, b \in PlaceTypes}
    IN {[fn |-> "getCategory(shopType)", arg |-> s] : s \in ShopTypes}
         \cup {[fn |-> "getCategory(types)", arg |-> ts] : ts \in PlaceTypeLists}

\* getCategory returns.
GetCategoryReturns ==
    /\ ~fnRes.done
    /\ \/ /\ fnArg.fn = "getCategory(shopType)"
          /\ fnRes' = [done |-> TRUE, val |-> getCategory(fnArg.arg)]
       \/ /\ fnArg.fn = "getCategory(types)"
          /\ fnRes' = [done |-> TRUE, val |-> getCategory_Google(fnArg.arg)]
    /\ UNCHANGED <<world, districts, taluks, villages, pincodes, stores,
                   selectedRegionIndices, isScanning, alert, regionsToScan, regionIdx,
                   allStores, fnArg, transformed, genVars, ioVars, scanVars>>

\* One call of getCategory, of either service, on any of the inputs.
InitCategory ==
    /\ Loaded
    /\ fnArg \in CategoryCalls /\ fnRes = NoResult /\ transformed = <<>> /\ GenDone
    /\ IoIdle

SpecCategory == InitCategory /\ [][GetCategoryReturns]_vars

\* --------------------------------------- transformToGeoFeature on its own
\* Elements of a response: two ids, two places, and tags with and without
\* stars, rating and addr:rate, parseable or not.
TaggedElements ==
    LET TagSets ==
            { NoTags,
              [NoTags EXCEPT !.stars = "4.5"],
              [NoTags EXCEPT !.stars = "abc", !.rating = "8"],
              [NoTags EXCEPT !.rating = "8", !.shop = "Bakery"],
              [NoTags EXCEPT !.rating = "good", !.addrRate = "3"],
              [NoTags EXCEPT !.addrRate = "3"] }
    IN { [El(id, at[1], at[2]) EXCEPT !.tags = tags] :
           id \in {1234567, 1234568}, at \in {<<7763, 1325>>, <<7756, 1291>>},
           tags \in TagSets }

\* elements.map(transformToGeoFeature) reaches the next element.
TransformElement(element) ==
    /\ Len(transformed) < MaxTransforms
    /\ transformed' = Append(transformed, [element |-> element,
                                           feature |-> transformToGeoFeature(element)])
    /\ UNCHANGED <<world, districts, taluks, villages, pincodes, stores,
                   selectedRegionIndices, isScanning, alert, regionsToScan, regionIdx,
                   allStores, fnArg, fnRes, genVars, ioVars, scanVars>>

\* Elements transformed one after the other.
SpecTransform == Init /\ [][\E element \in TaggedElements : TransformElement(element)]_vars

\* ------------------------------------------------------ export and import
Layers == {"ALL", "STORES", "DISTRICTS", "TALUKS", "VILLAGES", "PINCODES"}

\* handleLayerExport(layerName): the file offered for download.
handleLayerExport(layerName) ==
    /\ layerName \in Layers
    /\ LET features ==
              IF layerName = "ALL" THEN districts \o taluks \o villages \o pincodes \o stores
              ELSE IF layerName = "STORES" THEN stores
              ELSE IF layerName = "DISTRICTS" THEN districts
              ELSE IF layerName = "TALUKS" THEN taluks
              ELSE IF layerName = "VILLAGES" THEN villages
              ELSE pincodes
           filename ==
              IF layerName = "ALL" THEN "bengaluru_gis_full_data.csv"
              ELSE IF layerName = "STORES" THEN "retail_stores.csv"
              ELSE IF layerName = "DISTRICTS" THEN "bengaluru_districts.csv"
              ELSE IF layerName = "TALUKS" THEN "bengaluru_taluks.csv"
              ELSE IF layerName = "VILLAGES" THEN "bengaluru_villages.csv"
              ELSE "bengaluru_pincodes.csv"
       IN download' = [filename |-> filename, content |-> convertToCSV(features)]
    /\ UNCHANGED <<world, districts, taluks, villages, pincodes, stores,
                   selectedRegionIndices, isScanning, alert, regionsToScan, regionIdx,
                   allStores, fnVars, genVars, upload, imports, scanVars>>

\* JSON documents: one that does not parse, an object, an array of numbers,
\* and arrays of records: one record for a taluk with a name holding a
\* comma and quotes, two records for the same taluk, a record for no
\* feature, records for a district and a village, and a record with
\* another id for a district.
\* The files the user can pick: the one downloaded last, these JSON
\* documents, and a file of another kind.
Files ==
    LET Rec(geocode, key, val) ==
            Obj(<<"geocode", key>>, [k \in {"geocode", key} |-> IF k = key THEN val ELSE Str(geocode)])
        JsonFiles ==
            { File("broken.json", "", TRUE, FALSE, <<>>),
              File("object.json", "", FALSE, FALSE, <<>>),
              File("numbers.json", "", FALSE, TRUE, <<NoObj, NoObj>>),
              File("rename.json", "", FALSE, TRUE, <<Rec("KAT01", "name", Str("Dodda, \"North\""))>>),
              File("twice.json", "", FALSE, TRUE,
                   <<Rec("KAT01", "name", Str("Dodda")), Rec("KAT01", "population", Num(300000))>>),
              File("nowhere.json", "", FALSE, TRUE, <<Rec("KAT99", "name", Str("Nowhere"))>>),
              File("ids.json", "", FALSE, TRUE, <<Rec("KAD01", "id", Str("dist-new"))>>),
              File("two.json", "", FALSE, TRUE,
                   <<Rec("KAD01", "literacyRate", Num(80)), Rec("KAV1001", "name", Str("Tubagere East"))>>) }
    IN (IF download = NoDownload THEN {}
        ELSE {File(download.filename, download.content, FALSE, FALSE, <<>>)})
         \cup JsonFiles \cup {File("notes.txt", "geocode,name", FALSE, FALSE, <<>>)}

\* handleFileUpload with reader.onload: the file is read and parsed, and the
\* four collections are updated from its records.
handleFileUpload(file) ==
    /\ imports < MaxImports
    /\ imports' = imports + 1
    /\ upload' = file
    /\ \E read \in {ReadFile(file)} :
          IF read.ok
          THEN /\ districts' = updateCollection(districts, read.data)
               /\ taluks' = updateCollection(taluks, read.data)
               /\ villages' = updateCollection(villages, read.data)
               /\ pincodes' = updateCollection(pincodes, read.data)
               /\ alert' = "Successfully imported " \o ToString(Len(read.data))
                             \o " records. Data mapped by 'geocode'."
          ELSE /\ alert' = "Failed to parse file. Ensure it is a valid CSV or JSON array with a 'geocode' column."
               /\ UNCHANGED <<districts, taluks, villages, pincodes>>
    /\ UNCHANGED <<world, stores, selectedRegionIndices, isScanning, regionsToScan, regionIdx,
                   allStores, fnVars, genVars, download, scanVars>>

ImportStep ==
    \/ \E layerName \in Layers : handleLayerExport(layerName)
    \/ \E file \in Files : handleFileUpload(file)

\* The user exports layers and imports files.
SpecImport == Init /\ [][ImportStep]_vars

\* -------------------------------------------------- the village generator
\* Values of (lat, lng) = (minLat + Math.random() * (maxLat - minLat), ...)
\* in the bounding box of a taluk, as [lng, lat]: for the first taluk a
\* point inside its polygon, for the second one inside and one outside, for
\* the others a point outside.
Samples(talukName) ==
    IF talukName = "Doddaballapur" THEN {<<4 * 77503, 4 * 13351>>}
    ELSE IF talukName = "Devanahalli" THEN {<<4 * 77721, 4 * 13302>>, <<4 * 77630, 4 * 13400>>}
    ELSE IF talukName = "Nelamangala" THEN {<<4 * 77230, 4 * 12970>>}
    ELSE {<<4 * 77760, 4 * 12910>>}

\* The sampling loop without the cap on attempts.
LoopContinues_Uncapped(c, a) == c < targetCount

\* while (count < targetCount && attempts < 400)
LoopContinues(c, a) == c < targetCount /\ a < MaxAttempts

\* The module starts to load: nothing generated yet.
GenStart ==
    /\ pinGen = PinDone
    /\ generatedVillages = <<>>
    /\ vId = 0
    /\ villageGeocodeCounter = VillageGeocodeStart
    /\ genTaluk = 1
    /\ genPc = "real"
    /\ count = 0
    /\ attempts = 0

\* realNames.forEach(...): the curated villages of the taluk are created at
\* their known places and pushed; let attempts = 0.
PlaceRealVillages ==
    /\ genPc = "real"
    /\ LET real == REAL_VILLAGES(talukDataRaw[genTaluk].name)
           pushed == RealVillages(talukDataRaw[genTaluk], vId, villageGeocodeCounter)
       IN /\ generatedVillages' = generatedVillages \o pushed
          /\ vId' = vId + Len(real)
          /\ villageGeocodeCounter' = villageGeocodeCounter + Len(real)
          /\ count' = Len(pushed)
    /\ attempts' = 0
    /\ genPc' = "random"
    /\ UNCHANGED <<world, districts, taluks, villages, pincodes, stores,
                   selectedRegionIndices, isScanning, alert, regionsToScan, regionIdx,
                   allStores, fnVars, ioVars, genTaluk, pinGen, scanVars>>

\* One round of the while loop, with the sampled point.
SampleVillage(point) ==
    /\ genPc = "random"
    /\ LoopContinues(count, attempts)
    /\ attempts' = attempts + 1
    /\ LET taluk == talukDataRaw[genTaluk]
           feature == createVillageFeature("Dodapura", point[2], point[1], taluk.name,
                                           taluk.district, taluk.crops, vId,
                                           villageGeocodeCounter)
       IN IF isPointInPolygon(point, taluk.coords)
          THEN /\ vId' = vId + 1
               /\ villageGeocodeCounter' = villageGeocodeCounter + 1
               /\ generatedVillages' = generatedVillages \o feature
               /\ count' = count + Len(feature)
          ELSE UNCHANGED <<generatedVillages, vId, villageGeocodeCounter, count>>
    /\ UNCHANGED <<world, districts, taluks, villages, pincodes, stores,
                   selectedRegionIndices, isScanning, alert, regionsToScan, regionIdx,
                   allStores, fnVars, ioVars, genTaluk, genPc, pinGen, scanVars>>

\* The while loop is left: the callback returns and forEach goes on to the
\* next taluk, or is through.
LoopEnds ==
    /\ genPc = "random"
    /\ ~LoopContinues(count, attempts)
    /\ genTaluk' = genTaluk + 1
    /\ genPc' = IF genTaluk < Len(talukDataRaw) THEN "real" ELSE "done"
    /\ UNCHANGED <<world, districts, taluks, villages, pincodes, stores,
                   selectedRegionIndices, isScanning, alert, regionsToScan, regionIdx,
                   allStores, fnVars, ioVars, generatedVillages, vId, villageGeocodeCounter,
                   count, attempts, pinGen, scanVars>>

GenStep ==
    \/ PlaceRealVillages
    \/ /\ genPc = "random"
       /\ \E point \in Samples(talukDataRaw[genTaluk].name) : SampleVillage(point)
    \/ LoopEnds

\* The load of the module that generates the villages.
InitGen == Loaded /\ FnIdle /\ IoIdle /\ GenStart

SpecGen == InitGen /\ [][GenStep]_vars

\* -------------------------------------------------- the pincode generator
\* An error without the try block around the tessellation: it reaches the
\* code that imports the module.
TessellationFails_Uncaught(g, where) ==
    [g EXCEPT !.pc = "done", !.failed = where, !.escaped = TRUE]

\* catch (e) { console.warn("Voronoi generation failed or partial", e) }:
\* the error ends the try block; generatedPincodes is left as it is.
TessellationFails(g, where) ==
    [g EXCEPT !.pc = "done", !.failed = where]

\* Delaunay.from(points) and delaunay.voronoi(voronoiBounds).
BuildDiagram(throws) ==
    /\ pinGen.pc = "build"
    /\ pinGen' = IF throws THEN TessellationFails(pinGen, "build")
                 ELSE [pinGen EXCEPT !.pc = "cells", !.i = 1]
    /\ UNCHANGED <<world, districts, taluks, villages, pincodes, stores,
                   selectedRegionIndices, isScanning, alert, regionsToScan, regionIdx,
                   allStores, fnVars, ioVars, generatedVillages, vId, villageGeocodeCounter,
                   genTaluk, genPc, count, attempts, scanVars>>

\* One round of the for loop: cell i is processed.  Its outcome is an error,
\* no polygon (or a ring that is not valid), or a polygon, which is pushed.
ProcessCell(outcome) ==
    /\ pinGen.pc = "cells"
    /\ pinGen' = IF outcome = "throws" THEN TessellationFails(pinGen, "cell")
                 ELSE [pinGen EXCEPT
                         !.features = IF outcome = "polygon"
                                      THEN @ \o generatedPincodes({pinGen.i}) ELSE @,
                         !.i = @ + 1,
                         !.pc = IF pinGen.i = Len(REAL_PINCODES) THEN "done" ELSE "cells"]
    /\ UNCHANGED <<world, districts, taluks, villages, pincodes, stores,
                   selectedRegionIndices, isScanning, alert, regionsToScan, regionIdx,
                   allStores, fnVars, ioVars, generatedVillages, vId, villageGeocodeCounter,
                   genTaluk, genPc, count, attempts, scanVars>>

PinStep ==
    \/ \E throws \in BOOLEAN : BuildDiagram(throws)
    \/ \E outcome \in {"throws", "null", "polygon"} : ProcessCell(outcome)

InitPincodes ==
    /\ Loaded /\ FnIdle /\ IoIdle
    /\ generatedVillages = villagesData
    /\ vId = NumVillages
    /\ villageGeocodeCounter = VillageGeocodeStart + NumVillages
    /\ genTaluk = Len(talukDataRaw) + 1
    /\ genPc = "done"
    /\ count = 0
    /\ attempts = 0
    /\ pinGen = PinStart

\* The load of the module that generates the pincodes.
SpecPincodes == InitPincodes /\ [][PinStep]_vars

\* A step of the executeOverpassQuery of the depth-0 call: an answer to its
\* request, or the timer of a retry.
QueryStep ==
    /\ Len(stack) = 1
    /\ stack[1].qi = 0
    /\ \/ RespondOk
       \/ \E status \in Statuses : RespondRetry(status)
       \/ \E status \in Statuses : RespondError(status)
       \/ RetryTimer
       \/ \E msg \in AbortMessages : FetchAborted(msg)
       \/ \E msg \in OtherMessages : FetchFailed(msg)

\* The query of one depth-0 call, up to the step that settles it, with the
\* log of its answers and waits.
SpecQuery == CallStarted("timing") /\ [][QueryStep]_vars

\* One call of fetchRetailStoresBounded at depth 0, with or without an
\* onProgress callback.
SpecProgress == CallStarted("progress") /\ [][CallStep]_vars

\* ---------------------------------------------------------------------------
\* Properties of fetchRetailStoresBounded, stated over SpecCall.

Depths(stk) == {stk[k].depth : k \in 1..Len(stk)}

\* C1: whatever the endpoint answers, a depth-0 call of
\* fetchRetailStoresBounded settles, no activation is ever deeper than
\* depth 2, and at most 16 depth-2 queries are issued.
C1_BoundedScan ==
    /\ [](/\ \A d \in Depths(stack) : d <= MaxSplitDepth
          /\ Len(stack) <= MaxSplitDepth + 1
          /\ leafQueries <= 16)
    /\ <>(phase = "returned")

\* The call has settled after all sixteen depth-2 queries were issued.
C1_Witness == phase = "returned" /\ leafQueries = 16

\* What the query of quadrant q of the depth-0 box answers with, transformed.
QuadFeatures(q) == Features(Elements(world, Quadrants(rootBox)[q]))

\* The depth-0 call was split and has settled.
SplitCallSettled == phase = "returned" /\ rootErr # ""

ExactlyOneQuadrantFailed ==
    \E bad \in 1..4 : /\ quad[bad] = "failed"
                       /\ \A q \in 1..4 \ {bad} : quad[q] = "ok"

\* C2: when the depth-0 box was split and exactly one of the four quadrant
\* calls failed while the queries of the other three were answered, the
\* depth-0 call returns, without an error, the features of the three answered
\* quadrants concatenated in quadrant order.
C2_ThreeQuadrantsSurvive ==
    (SplitCallSettled /\ ExactlyOneQuadrantFailed)
        => top = Returned(Flatten([q \in 1..4 |-> IF quad[q] = "ok"
                                                  THEN QuadFeatures(q) ELSE <<>>]))

\* Such a call has settled with the nine features of three quadrants; the
\* failed quadrant is the last one, and it raised the rate-limit error.
C2_Witness ==
    /\ SplitCallSettled /\ ExactlyOneQuadrantFailed
    /\ quad[4] = "failed"
    /\ \E e \in exits : e.depth = 1 /\ e.how = "throw"
    /\ Len(top.val) = 9

\* The quarter of box b on the given sides of its midpoint ("S" or "N", "W" or
\* "E"), and the features the endpoint holds in it.
Quarter(b, ns, ew) ==
    LET midLat == (b.south + b.north) \div 2
        midLng == (b.west + b.east) \div 2
    IN [south |-> IF ns = "S" THEN b.south ELSE midLat,
        north |-> IF ns = "S" THEN midLat ELSE b.north,
        west |-> IF ew = "W" THEN b.west ELSE midLng,
        east |-> IF ew = "W" THEN midLng ELSE b.east]
QuarterFeatures(ns, ew) == Features(Elements(world, Quarter(rootBox, ns, ew)))

\* C3: when the query for the full box ends in OSM_ERROR_504 and each of the
\* four quadrant queries is answered with HTTP 200, the depth-0 call returns
\* the features of SW, SE, NW and NE concatenated in that order, and no
\* depth-2 query is issued.
C3_SplitOnGatewayTimeout ==
    (/\ SplitCallSettled
     /\ Includes(rootErr, "OSM_ERROR_504")
     /\ \A q \in 1..4 : quad[q] = "ok")
        => /\ top = Returned(QuarterFeatures("S", "W") \o QuarterFeatures("S", "E")
                               \o QuarterFeatures("N", "W") \o QuarterFeatures("N", "E"))
           /\ leafQueries = 0

\* The scenario with three elements per quadrant: twelve features come back.
C3_Witness ==
    /\ SplitCallSettled
    /\ Includes(rootErr, "OSM_ERROR_504")
    /\ \A q \in 1..4 : quad[q] = "ok"
    /\ world = World12 /\ rootBox = ScenarioBox
    /\ Len(top.val) = 12

\* The query of the settled call e failed for good and its box was not split.
FailedUnsplit(e) == e.cause # "" /\ ~e.split
RateLimited(e) == Includes(e.cause, "OSM_ERROR_429")

\* C4 as stated: a call with depth > 0 never raises an error to its caller,
\* and returns an empty list when its query fails for good and its box is not
\* split; only the depth-0 call raises.
C4_OnlyRootRaises ==
    \A e \in exits :
        /\ e.depth > 0 => e.how = "return"
        /\ (e.depth > 0 /\ FailedUnsplit(e)) => e.empty
        /\ (e.depth = 0 /\ FailedUnsplit(e)) => e.how = "throw"

\* C4, amended: a call with depth > 0 raises only the rate-limit error, and
\* only when its query was still answered 429 after the retries (its
\* parent's loop catches that error); when its query fails for good with
\* anything else and its box is not split, it returns an empty list; the
\* depth-0 call raises whenever its query fails for good and its box is not
\* split.
C4_OnlyRateLimitRaisesBelowRoot ==
    \A e \in exits :
        /\ (e.depth > 0 /\ e.how = "throw") => (RateLimited(e) /\ e.msg = RateLimitMessage)
        /\ (e.depth > 0 /\ FailedUnsplit(e) /\ ~RateLimited(e))
              => (e.how = "return" /\ e.empty)
        /\ (e.depth = 0 /\ FailedUnsplit(e)) => e.how = "throw"

\* A depth-2 call has raised the rate-limit error into the loop of its
\* parent, which is still running.
C4_Witness ==
    /\ \E e \in exits : e.depth = MaxSplitDepth /\ e.how = "throw" /\ RateLimited(e)
    /\ stack # <<>>

\* C5 as stated: a query that has been answered with 429 every time is given
\* up after its fifth request; a sixth request is never sent.
C5_NoSixthRequest == (History(recording) /\ only429) => sent <= Max429Attempt

\* C6: a query still answered 429 after its retries is never split: at every
\* depth the call settles at once by raising the rate-limit error.
C6_RateLimitNeverSplit ==
    Includes(caught.msg, "OSM_ERROR_429")
        => /\ \E e \in exits : /\ e.depth = caught.depth
                                /\ e.cause = caught.msg
                                /\ e.how = "throw"
                                /\ e.msg = RateLimitMessage
                                /\ ~e.split
           /\ Len(stack) <= caught.depth + 1
           /\ \A k \in 1..Len(stack) : stack[k].depth = caught.depth => stack[k].qi = 0

\* The depth-0 query, whose box could still be split, was given up on 429.
C6_Witness ==
    /\ Includes(caught.msg, "OSM_ERROR_429") /\ caught.depth = 0
    /\ phase = "returned" /\ top = Thrown(RateLimitMessage)

\* C7 as stated: a request aborted by the 120 s timer on every attempt is
\* handled as a timeout: at depth < 2 the box is split, so the first quadrant
\* query is out right after the abort was caught.
C7_AbortIsSplit ==
    (caught.msg \in AbortMessages /\ caught.depth < MaxSplitDepth)
        => /\ phase = "fetch"
           /\ Len(stack) = caught.depth + 2
           /\ stack[caught.depth + 1].qi = 1

\* ---------------------------------------------------------------------------
\* Properties of the application, stated over Spec.

\* C8 as stated: no two features have the same id, neither in the list a
\* depth-0 call of fetchRetailStoresBounded returns nor in the store
\* collection a scan of several regions produces.
C8_StoreIdsDistinct ==
    /\ (phase = "returned" /\ top.how = "return") => Distinct(Ids(top.val))
    /\ Distinct(Ids(stores))

\* C9 as stated: within each collection (districts, taluks, villages,
\* pincodes, stores) the geocodes are pairwise distinct.
C9_GeocodesDistinct ==
    /\ Distinct(Geocodes(districts))
    /\ Distinct(Geocodes(taluks))
    /\ Distinct(Geocodes(villages))
    /\ Distinct(Geocodes(pincodes))
    /\ Distinct(Geocodes(stores))

\* The call for the last region to scan has returned: handleScanStores is
\* about to finish the scan successfully.
ScanCompleting ==
    phase = "returned" /\ top.how = "return" /\ regionIdx = Len(regionsToScan)

\* C10: at the step that completes a scan successfully the store collection
\* becomes exactly the features the scan returned, region after region,
\* whatever the collection held before; no other step taken during a scan
\* touches the collection.
C10_ScanReplacesStores ==
    [][/\ (ScanCompleting /\ ~isScanning') => stores' = allStores \o top.val
       /\ (isScanning /\ ~(ScanCompleting /\ ~isScanning')) => stores' = stores]_vars

\* A scan is about to complete while the collection holds the features of an
\* earlier scan, which differ from the ones just returned.
C10_Witness ==
    /\ ScanCompleting
    /\ stores # <<>>
    /\ allStores \o top.val # <<>>
    /\ stores # allStores \o top.val
\* ---------------------------------------------------------------------------
\* Properties of the retries of executeOverpassQuery, stated over SpecQuery.

Gateway(e) == e.kind = "http" /\ e.status \in {502, 504}
Entries(P(_)) == {i \in 1..Len(answers) : P(answers[i])}
RetriedGateway(e) == Gateway(e) /\ e.retried
Last(s) == s[Len(s)]

\* C18: a query answered with 502 or 504 is retried at most twice, each time
\* after a wait of 2000 ms; a 502/504 that comes after two such retries (or
\* on a later attempt) is thrown as OSM_ERROR_<status>, and the box of the
\* query is then split into its quadrants.
C18_GatewayRetriedTwice ==
    /\ Cardinality(Entries(RetriedGateway)) <= 2
    /\ \A i \in Entries(RetriedGateway) : answers[i].wait = 2000
    /\ \A i \in Entries(Gateway) :
          \/ answers[i].retried /\ (i = Len(answers) => phase \in {"backoff", "fetch"})
          \/ /\ ~answers[i].retried
             /\ i = Len(answers)
             /\ Cardinality(Entries(RetriedGateway)) = 2 \/ answers[i].attempt > 2
             /\ rootErr = "OSM_ERROR_" \o ToString(answers[i].status)
             /\ caught = [msg |-> rootErr, depth |-> 0]
             /\ Len(stack) = 2 /\ stack[1].qi = 1 /\ stack[2].box = Quarter(rootBox, "S", "W")
    /\ (answers # <<>> /\ RetriedGateway(Last(answers)) /\ phase = "fetch")
          => sent = Len(answers) + 1

C18_Witness ==
    /\ Len(answers) = 3
    /\ \A i \in 1..3 : Gateway(answers[i])
    /\ Len(stack) = 2

\* C19 (as claimed): a request aborted by the fetch timeout is retried at
\* most twice for a query, and each such retry is sent after a wait of 2 s.
RetriedAbort(e) == e.kind = "abort" /\ e.retried
C19_AbortRetriedAfterDelay ==
    /\ Cardinality(Entries(RetriedAbort)) <= 2
    /\ \A i \in Entries(RetriedAbort) : answers[i].wait = 2000

\* C20: the wait after a 429 received on attempt a is 3000 * 2^(a-1) ms plus
\* a jitter in [0, 1000), and of two waits of a query after a 429 the later
\* one is the longer.
Retried429(e) == e.kind = "http" /\ e.status = 429 /\ e.retried
C20_BackoffGrows ==
    /\ \A i \in Entries(Retried429) :
          /\ answers[i].attempt = i
          /\ answers[i].wait - 3000 * 2 ^ (i - 1) \in 0..999
    /\ \A i, j \in Entries(Retried429) : i < j => answers[i].wait < answers[j].wait

C20_Witness ==
    /\ Len(answers) = 5
    /\ \A i \in 1..5 : Retried429(answers[i])
    /\ answers[1].wait = 3999 /\ answers[5].wait = 48000

\* ---------------------------------------------------------------------------
\* Properties of getCategory, stated over SpecCategory.

Categories ==
    {"Groceries", "Food & Beverages", "Fashion", "Accessories", "Electronics",
     "Home & Living", "Hardware & DIY", "Health", "Beauty", "Automotive",
     "Books & Stationery", "Gifts & Hobbies", "Liquor & Tobacco", "Department Stores",
     "General Retail"}

\* The rules of the called variant, and the rules the argument matches.
RulesCalled == IF fnArg.fn = "getCategory(shopType)" THEN OSM_RULES ELSE GOOGLE_RULES
Matching ==
    {k \in 1..Len(RulesCalled) :
        IF fnArg.fn = "getCategory(shopType)"
        THEN ToLowerCase(fnArg.arg) \in RulesCalled[k].members
        ELSE \E i \in 1..Len(fnArg.arg) : fnArg.arg[i] \in RulesCalled[k].members}

\* C16: getCategory returns for every input, and returns one category of
\* the fixed set: that of the first rule, in the declared order, that the
\* input matches (for a list of types: that some type matches), and
\* 'General Retail' when it matches none.
C16_FirstCategoryWins ==
    /\ ENABLED GetCategoryReturns \/ fnRes.done
    /\ fnRes.done =>
          /\ fnRes.val \in Categories
          /\ Matching = {} => fnRes.val = "General Retail"
          /\ Matching # {} => fnRes.val = RulesCalled[SetMin(Matching)].category

\* A place whose second type matches an earlier rule than its first type.
C16_Witness ==
    /\ fnRes.done
    /\ fnArg = [fn |-> "getCategory(types)", arg |-> <<"shopping_mall", "supermarket">>]
    /\ fnRes.val = "Groceries"

\* ---------------------------------------------------------------------------
\* Properties of transformToGeoFeature, stated over SpecTransform.

\* C17: of two transformed elements with the same id whose tags give no
\* rating, the features carry the same rating, whatever their places and
\* tags and whatever was transformed before them.
C17_RatingFollowsId ==
    \A i, j \in 1..Len(transformed) :
        (/\ transformed[i].element.id = transformed[j].element.id
         /\ TagRating(transformed[i].element.tags) = NaN
         /\ TagRating(transformed[j].element.tags) = NaN)
        => transformed[i].feature.properties.rating = transformed[j].feature.properties.rating

\* The same id at two places, once without rating tags and once with stars
\* that do not parse (which keep the parseable rating tag from being read).
C17_Witness ==
    /\ Len(transformed) = 2
    /\ transformed[1].element.id = 1234567 /\ transformed[2].element.id = 1234567
    /\ transformed[1].element.lat # transformed[2].element.lat
    /\ transformed[1].element.tags = NoTags
    /\ transformed[2].element.tags.stars = "abc" /\ transformed[2].element.tags.rating = "8"
    /\ transformed[2].feature.properties.rating = Dec(430)

\* ---------------------------------------------------------------------------
\* Properties of the village generator, stated over SpecGen.

\* The taluk a generated village was created for.
TalukOf(v) == CHOOSE k \in 1..Len(talukDataRaw) : Str(talukDataRaw[k].name) = v.properties.taluk

\* C14 (as claimed): every generated village, curated or randomly placed,
\* has its centre inside the polygon of its taluk.
C14_VillagesInsideTaluk ==
    \A i \in 1..Len(generatedVillages) :
        isPointInPolygon(generatedVillages[i].centre,
                         talukDataRaw[TalukOf(generatedVillages[i])].coords)

\* C15: at most 400 samples are drawn for a taluk; after the 400th, or
\* once the taluk has 35 villages, the loop is left and cannot go on, and
\* leaving it keeps the villages generated so far (fewer than 35 for the
\* taluk when the attempts ran out) and goes on to the next taluk.
C15_SamplingEnds ==
    [][/\ attempts' <= 400
       /\ (genPc = "random" /\ (attempts = 400 \/ count >= 35)) =>
             /\ generatedVillages' = generatedVillages
             /\ genTaluk' = genTaluk + 1
             /\ genPc' \in {"real", "done"}
       /\ (genPc = "random" /\ attempts < 400 /\ count < 35) =>
             /\ attempts' = attempts + 1
             /\ genPc' = "random"
             /\ Len(generatedVillages') >= Len(generatedVillages)]_vars

\* The generator is through, the last taluk with fewer than 35 villages.
C15_Witness ==
    /\ genPc = "done"
    /\ attempts = 400
    /\ count < 35
    /\ Len(generatedVillages) = 35 + count

\* ---------------------------------------------------------------------------
\* Properties of export and import, stated over SpecImport.

\* The step reads a file.
Importing == imports' = imports + 1

\* Every attribute the features of a collection had before a step has the
\* same value after it.
AttributesKept(before, after) ==
    /\ Len(after) = Len(before)
    /\ \A i \in 1..Len(before) : \A k \in Range(before[i].keys) :
          k \in DOMAIN after[i].properties /\ after[i].properties[k] = before[i].properties[k]

\* C11 (as claimed): when the file read is the CSV export of a collection as
\* it is, every attribute of every feature of the collection keeps its value.
C11_ExportImportRoundTrip ==
    [][Importing =>
         /\ upload'.content = convertToCSV(districts) => AttributesKept(districts, districts')
         /\ upload'.content = convertToCSV(taluks) => AttributesKept(taluks, taluks')
         /\ upload'.content = convertToCSV(villages) => AttributesKept(villages, villages')
         /\ upload'.content = convertToCSV(pincodes) => AttributesKept(pincodes, pincodes')]_vars

\* All the records of data whose geocode equals that of the feature, merged
\* into it one after the other.
RECURSIVE MergedWithAll(_, _)
MergedWithAll(feature, data) ==
    IF data = <<>> THEN feature
    ELSE MergedWithAll(IF GeocodeMatches(Head(data), feature) THEN Merged(feature, Head(data))
                       ELSE feature, Tail(data))

EachRecordMerged(before, after, data) ==
    /\ Len(after) = Len(before)
    /\ \A i \in 1..Len(before) : after[i] = MergedWithAll(before[i], data)

\* C12 (as claimed): after an import every feature has each record of the
\* file with its geocode merged into its properties, the imported values
\* overriding; a feature with no such record is as before.
C12_EachMatchingRecordMerged ==
    [][(Importing /\ ReadFile(upload').ok) =>
         LET data == ReadFile(upload').data
         IN /\ EachRecordMerged(districts, districts', data)
            /\ EachRecordMerged(taluks, taluks', data)
            /\ EachRecordMerged(villages, villages', data)
            /\ EachRecordMerged(pincodes, pincodes', data)]_vars

\* The file is a JSON document that is no array of objects.
NoArrayOfObjects(file) ==
    /\ EndsWith(file.name, ".json")
    /\ \/ file.malformed
       \/ ~file.array
       \/ \E k \in 1..Len(file.entries) : ~file.entries[k].object

\* C13 (as claimed): when the document read is malformed JSON, or JSON that
\* is no array of objects, the four collections stay as they are and the
\* failure message is shown.
C13_UnparseableImportFails ==
    [][(Importing /\ NoArrayOfObjects(upload')) =>
         /\ UNCHANGED <<districts, taluks, villages, pincodes>>
         /\ Includes(alert', "Failed to parse file")]_vars

\* ---------------------------------------------------------------------------
\* The pacing of the quadrants, stated over SpecCall.

\* The step sends the first request of a quadrant that is not the first of
\* its parent's loop.
LaterQuadrantStarts ==
    /\ stack' # stack
    /\ stack' # <<>>
    /\ Top(stack').idx > 1
    /\ phase' = "fetch" /\ attempt' = 1 /\ sent' = 1

\* C21: the first request of each quadrant after the first is sent at the
\* end of the 200 ms pause that followed the previous quadrant's scan,
\* however that quadrant ended.
C21_QuadrantsPaced == [][LaterQuadrantStarts => phase = "pacing"]_vars

\* ---------------------------------------------------------------------------
\* The quadrants of a split, stated over SpecCall.

\* [south, west, north, east] of a box, as the code lists a quadrant.
AsList(b) == <<b.south, b.west, b.north, b.east>>
Height(b) == b.north - b.south
Width(b) == b.east - b.west
Inside(q, b) ==
    /\ b.south <= q.south /\ q.north <= b.north
    /\ b.west <= q.west /\ q.east <= b.east
\* Two boxes share no more than points of an edge.
MeetOnEdgeOnly(p, q) ==
    \/ Min(p.north, q.north) <= IF p.south > q.south THEN p.south ELSE q.south
    \/ Min(p.east, q.east) <= IF p.west > q.west THEN p.west ELSE q.west

\* The quadrants qs of box b are the four the split is meant to scan.
FourEqualQuadrants(b, qs) ==
    LET midLat == qs[1].north
        midLng == qs[1].east
    IN  /\ 2 * midLat = b.south + b.north
        /\ 2 * midLng = b.west + b.east
        /\ AsList(qs[1]) = <<b.south, b.west, midLat, midLng>>
        /\ AsList(qs[2]) = <<b.south, midLng, midLat, b.east>>
        /\ AsList(qs[3]) = <<midLat, b.west, b.north, midLng>>
        /\ AsList(qs[4]) = <<midLat, midLng, b.north, b.east>>
        /\ \A i, j \in 1..4 : Height(qs[i]) = Height(qs[j]) /\ Width(qs[i]) = Width(qs[j])
        /\ \A i \in 1..4 : Inside(qs[i], b)
        /\ \A i, j \in 1..4 : i # j => MeetOnEdgeOnly(qs[i], qs[j])
        /\ 4 * Height(qs[1]) * Width(qs[1]) = Height(b) * Width(b)

\* C22: a box that is split is cut into (south,west,midLat,midLng),
\* (south,midLng,midLat,east), (midLat,west,north,midLng) and
\* (midLat,midLng,north,east) at the middle of its sides; the four are equal
\* in size, lie inside the box, fill it, and meet only along edges; each
\* quadrant call scans the quadrant of its position.
C22_FourEqualQuadrants ==
    \A k \in 1..Len(stack) :
        stack[k].qi > 0 =>
            /\ FourEqualQuadrants(stack[k].box, Quadrants(stack[k].box))
            /\ k < Len(stack) =>
                  /\ stack[k + 1].idx = stack[k].qi
                  /\ stack[k + 1].box = Quadrants(stack[k].box)[stack[k].qi]

\* The north-east quadrant of a south-east quadrant is being scanned.
C22_Witness ==
    /\ Len(stack) = 3
    /\ stack[2].idx = 2 /\ stack[3].idx = 4
    /\ phase = "fetch"

\* ---------------------------------------------------------------------------
\* The requests in flight, stated over Spec.

\* C23: during a scan of one or of several regions, at any moment at most
\* one request to the endpoint has been sent and has not settled: retries,
\* quadrants and regions follow one another.
C23_OneRequestInFlight ==
    /\ inFlight <= 1
    /\ inFlight = 1 <=> phase = "fetch"

\* The retry of a request that was aborted is in flight, in a quadrant of
\* the second region of a scan.
C23_Witness ==
    /\ inFlight = 1
    /\ regionIdx = 2
    /\ Len(stack) = 2
    /\ attempt = 2
    /\ answers = <<>> /\ sent = 2

\* ---------------------------------------------------------------------------
\* The progress callback, stated over SpecProgress.

\* What decides the requests and the result of a call.
ScanControl(r) == <<r.stack, r.phase, r.attempt, r.sent, r.top, r.g.leafQueries>>

C25_VillageGeocodesSequential ==
    /\ \A k \in 1..Len(generatedVillages) :
          generatedVillages[k].properties.geocode
            = Str("KAV" \o ToString(VillageGeocodeStart - 1 + k))
    /\ villageGeocodeCounter = VillageGeocodeStart + Len(generatedVillages)

\* In the second taluk one sampled point was dropped and one became a
\* village, after the curated villages of both taluks.
C25_Witness ==
    /\ genTaluk = 2
    /\ genPc = "random"
    /\ attempts = 2
    /\ count = Len(REAL_VILLAGES(talukDataRaw[2].name)) + 1
    /\ Len(generatedVillages) > targetCount

\* ---------------------------------------------------------------------------
\* The failure of the tessellation, stated over SpecPincodes.

\* C26: when the tessellation has thrown, while the diagram was built or
\* while a cell was processed, generatedPincodes holds no feature and the
\* error has not reached the code that loads the module.
C26_FailureGivesNoPincodes ==
    (pinGen.pc = "done" /\ pinGen.failed # "") =>
        (pinGen.features = <<>> /\ ~pinGen.escaped)

\* C26, amended: when the tessellation has thrown while the diagram was
\* built, generatedPincodes holds no feature; when it has thrown while cell i
\* was processed, generatedPincodes holds the features pushed for cells
\* before i, in their order, and none for cell i or a later one; in both
\* cases the error has not reached the code that loads the module.
C26_FailureKeepsEarlierCells ==
    (pinGen.pc = "done" /\ pinGen.failed # "") =>
        /\ ~pinGen.escaped
        /\ pinGen.failed = "build" => pinGen.features = <<>>
        /\ pinGen.failed = "cell" =>
              \E kept \in SUBSET (1..(pinGen.i - 1)) :
                  pinGen.features = generatedPincodes(kept)

\* The tessellation threw at the third cell, after the first two were pushed.
C26_Witness ==
    /\ pinGen.pc = "done"
    /\ pinGen.failed = "cell"
    /\ pinGen.i = 3
    /\ pinGen.features = generatedPincodes({1, 2})

\* ---------------------------------------------------------------------------
\* The attempts of one query, stated over SpecQuery.

\* C27: one query sends at most 6 requests whatever its requests meet, and
\* a 502, a 504 or an abort met on the third or a later attempt is not
\* retried.
C27_SharedAttemptCounter ==
    /\ sent <= 6
    /\ \A k \in 1..Len(answers) :
          (/\ answers[k].kind = "abort" \/ answers[k].status \in {502, 504}
           /\ answers[k].attempt >= 3)
          => ~answers[k].retried

\* Two 429 answers were retried; the third request was aborted and the
\* query failed without another request.
C27_Witness ==
    /\ Len(answers) = 3
    /\ answers[1].status = 429 /\ answers[1].retried
    /\ answers[2].status = 429 /\ answers[2].retried
    /\ answers[3].kind = "abort" /\ answers[3].attempt = 3 /\ ~answers[3].retried

\* ---------------------------------------------------------------------------
\* The result of a call that was split, stated over SpecCall.

\* C28: a depth-0 call whose query failed with an error it splits on
\* returns a list, whatever its quadrants met, and never raises; when no
\* query below it was answered, the list is empty.
C28_SplitCallReturns ==
    (phase = "returned" /\ rootErr # "") =>
        /\ SplitEligible(0, rootErr)
        /\ top.how = "return"
        /\ (\A q \in 1..4 : quad[q] = "failed") => top.val = <<>>

\* The call was split on a 504, its quadrants failed - one of them raised
\* the rate-limit error - and it has returned the empty list.
C28_Witness ==
    /\ phase = "returned"
    /\ rootErr = "OSM_ERROR_504"
    /\ \A q \in 1..4 : quad[q] = "failed"
    /\ top = Returned(<<>>)
    /\ \E e \in exits : e.how = "throw"

\* ---------------------------------------------------------------------------
\* A scan that fails, stated over Spec.

\* The scan is in its last step that succeeds: the last region has returned.
LastRegionReturned ==
    phase = "returned" /\ top.how = "return" /\ regionIdx = Len(regionsToScan)

\* C29: while a scan runs the stores are not touched until its last region
\* has returned; when the call for a region raises, the stores stay what
\* they were before the scan, what earlier regions gave is dropped, no
\* further region is queried, the user is told, and isScanning is false
\* again.
C29_FailedScanKeepsStores ==
    [][/\ (isScanning /\ ~LastRegionReturned) => stores' = stores
       /\ (ScanResume /\ top.how = "throw") =>
             /\ stores' = stores
             /\ allStores' = <<>>
             /\ ~isScanning'
             /\ phase' = "idle" /\ stack' = <<>> /\ inFlight' = 0
             /\ alert' = "Scan failed. Check network connection or try again later."]_vars

\* The call for the second region of a scan has raised after the first
\* region gave features, while stores of an earlier scan are shown.
C29_Witness ==
    /\ isScanning
    /\ phase = "returned" /\ top.how = "throw"
    /\ regionIdx = 2
    /\ allStores # <<>>
    /\ stores # <<>>
    /\ stores # allStores

\* ---------------------------------------------------------------------------
\* What an import leaves alone, stated over SpecImport.

\* The features of now are those of data, one for one and in the same order,
\* with the same id, geometry and geocode.
SameFeatures(now, data) ==
    /\ Len(now) = Len(data)
    /\ \A i \in 1..Len(data) :
          /\ now[i].id = data[i].id
          /\ now[i].geometry = data[i].geometry
          /\ now[i].properties.geocode = data[i].properties.geocode

====
